---- MODULE Spec2Model ----
(***************************************************************************)
(* Model of the Ollama provider bridge of trust-cli                        *)
(* (packages/core/src/providers/ollama.ts): the retry executor             *)
(* callOllamaAPIWithRetry, the unary path generateContent, and the         *)
(* streaming path generateContentStream over the line decoder of           *)
(* callOllamaAPIStream.                                                    *)
(*                                                                         *)
(* Next to them stand the pure parts on their own: the message translator  *)
(* (convertToOllamaMessages, convertToGeminiResponse), the capability      *)
(* registry (ollama-model-configs.ts), the constructor with its            *)
(* environment, and the provider index (index.ts).                         *)
(*                                                                         *)
(* One request runs on one provider instance.  A state is a suspension     *)
(* point of the code (an awaited fetch, an awaited backoff timer, an       *)
(* awaited reader.read(), a generator suspended at a yield); an action     *)
(* runs the synchronous code from one suspension point to the next.        *)
(***************************************************************************)
EXTENDS Integers, Sequences, FiniteSets, TLC

VARIABLES
  mode,         \* "unary" (generateContent) or "stream" (generateContentStream)
  pc,           \* suspension point of the request
  attempt,      \* loop variable of callOllamaAPIWithRetry
  lastError,    \* lastError of callOllamaAPIWithRetry
  attemptLog,   \* what the backend answered to each fetch, in order
  invocations,  \* number of calls of operation() made by the retry executor
  requests,     \* number of POST /api/chat requests issued
  waits,        \* the backoff delays waited, in order
  result,       \* what the caller of the bridge has got so far
  body,         \* the response body the backend serves to the stream
  pos,          \* first position of the body not yet handed out by read()
  buffer,       \* buffer of callOllamaAPIStream
  lines,        \* lines of the current chunk the for loop has not processed yet
  consecutiveErrors, \* consecutiveErrors of callOllamaAPIStream
  raised,       \* the error raised inside the stream machinery, if any
  emitted,      \* records the decoder has yielded (line numbers), in order
  delivered,    \* responses generateContentStream has yielded (line numbers)
  reads,        \* number of reader.read() calls issued
  reader,       \* "none", "locked" (getReader), "released" (releaseLock)
  releases,     \* number of reader.releaseLock() calls
  bodyStream,   \* "none", "open", "closed" (read to its end), "errored", "cancelled"
  provider,     \* the fields of the OllamaProvider instance, set by its constructor
  request,      \* the GenerateContentParameters of the call: model and contents
  messages,     \* the wire messages convertToOllamaMessages built for the call
  warnings,     \* the console.warn calls of validateModelToolSupport, in order
  responses,    \* what convertToGeminiResponse made of each echoed wire message
  config,       \* the entry getModelConfig returned
  other,        \* the other call in flight on the provider, suspended, if any
  conversation, \* the caller's Conversation object, as it is now
  env,          \* process.env: the OLLAMA_ variables
  options,      \* the config argument of the constructor and of the factories
  modelString,  \* the model argument of extractProvider and createProviderFromModel
  extracted,    \* what extractProvider returned
  created,      \* what createProviderFromModel has come to
  probes        \* number of GET /api/version requests issued

retryVars == <<attempt, lastError, attemptLog, invocations, requests, waits>>
streamVars == <<body, pos, buffer, lines, consecutiveErrors, raised,
                emitted, delivered, reads, reader, releases, bodyStream>>
indexVars == <<env, options, modelString, extracted, created, probes>>
fixedVars == <<mode, provider, request, responses, config, other, indexVars>>
preludeVars == <<messages, warnings, conversation>>
vars == <<pc, result, retryVars, streamVars, fixedVars, preludeVars>>

(***************************************************************************)
(* Bounds of the model.                                                    *)
(***************************************************************************)
MaxRun == 6       \* longest run of malformed lines in a generated body
MaxLines == 2     \* longest body of the exhaustive family of bodies

(***************************************************************************)
(* Program constants.                                                      *)
(***************************************************************************)
DefaultMaxRetries == 3          \* callOllamaAPIWithRetry(operation, maxRetries = 3
StreamMaxRetries == 2           \* callOllamaAPIStreamWithRetry(.., maxRetries = 2
DefaultBackoffMs == 1000        \* backoffMs = 1000
MAX_BUFFER_SIZE == 1048576      \* 1024 * 1024
MaxConsecutiveErrors == 5       \* if (++consecutiveErrors > 5)

(***************************************************************************)
(* Text.  An error message is a sequence of characters, so that the        *)
(* regular expression of the retry executor is matched as the code         *)
(* matches it.                                                             *)
(***************************************************************************)
DigitChars == <<"0", "1", "2", "3", "4", "5", "6", "7", "8", "9">>
DigitSet == {DigitChars[i] : i \in 1..10}

\* String(status) of a three-digit HTTP status.
StatusString(status) ==
  << DigitChars[(status \div 100) + 1],
     DigitChars[((status \div 10) % 10) + 1],
     DigitChars[(status % 10) + 1] >>

HttpPrefix == <<"H", "T", "T", "P", " ">>

\* `HTTP ${response.status}: ${errorText}`
HttpErrorMessage(status, errorText) ==
  HttpPrefix \o StatusString(status) \o <<":", " ">> \o errorText

\* A mutant of IsClientError: only status 400 is taken for a client error.
IsClientError_Only400(message) ==
  \E i \in 1..(Len(message) - 8) :
    /\ SubSeq(message, i, i + 4) = HttpPrefix
    /\ SubSeq(message, i + 5, i + 8) = <<"4", "0", "0", ":">>

\* lastError.message.match(/HTTP 4\d\d:/)
IsClientError(message) ==
  \E i \in 1..(Len(message) - 8) :
    /\ SubSeq(message, i, i + 4) = HttpPrefix
    /\ message[i + 5] = "4"
    /\ message[i + 6] \in DigitSet
    /\ message[i + 7] \in DigitSet
    /\ message[i + 8] = ":"

(***************************************************************************)
(* Errors and backend answers.                                             *)
(***************************************************************************)
NoError == [kind |-> "none", message |-> <<>>, attempts |-> 0]
MakeError(kind, message) == [kind |-> kind, message |-> message, attempts |-> 0]

NoPayload == [id |-> "none", argsValid |-> TRUE]
\* The JSON bodies a 200 answer of the unary call can carry: argsValid tells
\* whether every tool_calls[].function.arguments string is valid JSON.
Payloads == { [id |-> "hello", argsValid |-> TRUE],
              [id |-> "call", argsValid |-> TRUE],
              [id |-> "badcall", argsValid |-> FALSE] }

TextNo == <<"n", "o">>
TextProxy404 == <<"H", "T", "T", "P", " ", "4", "0", "4", ":">>
BodyTexts == {TextNo, TextProxy404}
StatusText == <<"S", "T">>
RejectMessages == { <<"f", "e", "t", "c", "h">>,              \* network error
                    <<"t", "i", "m", "e", "o", "u", "t">> }   \* AbortSignal.timeout
Statuses == {400, 404, 499, 500, 503}

Rejected(message) ==
  [type |-> "reject", status |-> 0, text |-> message, textOk |-> FALSE,
   payload |-> NoPayload, hasBody |-> FALSE]
HttpError(status, text, textOk) ==
  [type |-> "http", status |-> status, text |-> text, textOk |-> textOk,
   payload |-> NoPayload, hasBody |-> FALSE]
HttpOk(payload, hasBody) ==
  [type |-> "ok", status |-> 200, text |-> <<>>, textOk |-> TRUE,
   payload |-> payload, hasBody |-> hasBody]

FetchFailures ==
  {Rejected(m) : m \in RejectMessages}
    \cup {HttpError(s, t, ok) : s \in Statuses, t \in BodyTexts, ok \in BOOLEAN}
UnaryAnswers == FetchFailures \cup {HttpOk(p, FALSE) : p \in Payloads}

\* const errorText = await response.text().catch(() => response.statusText)
ErrorText(resp) == IF resp.textOk THEN resp.text ELSE StatusText

\* The error callOllamaAPI / callOllamaAPIStream throws for an answer that is
\* not ok: a rejected fetch throws its own error, a response with !response.ok
\* throws new Error(`HTTP ${response.status}: ${errorText}`).
OperationError(resp) ==
  IF resp.type = "reject"
    THEN MakeError("Error", resp.text)
    ELSE MakeError("Error", HttpErrorMessage(resp.status, ErrorText(resp)))

(***************************************************************************)
(* The retry executor, callOllamaAPIWithRetry.                             *)
(***************************************************************************)
\* A mutant of RecordLastError: the first failure is kept.
RecordLastError_KeepFirst(previous, error) ==
  IF previous.kind = "none" THEN error ELSE previous

\* lastError = error instanceof Error ? error : new Error(String(error))
RecordLastError(previous, error) == error

\* if (attempt < maxRetries - 1)
ShouldBackoff(att, maxRetries) == att < maxRetries - 1

RECURSIVE Pow2(_)
Pow2(n) == IF n = 0 THEN 1 ELSE 2 * Pow2(n - 1)

\* A mutant of BackoffDelay: every wait is the base delay.
BackoffDelay_Constant(backoffMs, att) == backoffMs

\* const delay = backoffMs * Math.pow(2, attempt)
BackoffDelay(backoffMs, att) == backoffMs * Pow2(att)

\* new Error(`Ollama API failed after ${maxRetries} attempts: ${lastError!.message}`)
ExhaustedError(maxRetries, last) ==
  [kind |-> "Exhausted", message |-> last.message, attempts |-> maxRetries]

\* A mutant of LoopContinues: the loop test is off by one.
LoopContinues_OffByOne(att, maxRetries) == att <= maxRetries

\* for (let attempt = 0; attempt < maxRetries; attempt++)
LoopContinues(att, maxRetries) == att < maxRetries

\* The catch block of the loop, with lastError already recorded: "throw" leaves
\* the executor with lastError, "sleep" awaits the backoff timer, "loop" goes
\* straight on to attempt++ and the loop test.
ExecOnFailure(att, last, maxRetries, backoffMs) ==
  IF IsClientError(last.message)
    THEN [next |-> "throw", value |-> NoPayload, error |-> last, delay |-> 0]
  ELSE IF ShouldBackoff(att, maxRetries)
    THEN [next |-> "sleep", value |-> NoPayload, error |-> NoError,
          delay |-> BackoffDelay(backoffMs, att)]
  ELSE [next |-> "loop", value |-> NoPayload, error |-> NoError, delay |-> 0]

(***************************************************************************)
(* Conversations.  A string the code inspects is a sequence of characters. *)
(* A Part carries every field of the union; the fields of the other        *)
(* variants are absent: an empty text, an empty id, an absent object.      *)
(***************************************************************************)
MaxParts == 2     \* most Parts of a generated Turn

\* An optional value; an absent one carries a value of its type.
Some(x) == [present |-> TRUE, value |-> x]
None(x) == [present |-> FALSE, value |-> x]

\* A number of JavaScript: an integer, or NaN.
Number(n) == [nan |-> FALSE, n |-> n]
NaN == [nan |-> TRUE, n |-> 0]

\* JSON values: a string or a number; an object is the sequence of its
\* members <<key, value>> in insertion order.
Str(s) == [t |-> "string", s |-> s, n |-> 0]
Num(n) == [t |-> "number", s |-> <<>>, n |-> n]
EmptyObject == <<>>
LocationParis == << << <<"l", "o", "c", "a", "t", "i", "o", "n">>, Str(<<"P", "a", "r", "i", "s">>)>> >>
WeatherSunny == << << <<"t", "e", "m", "p", "e", "r", "a", "t", "u", "r", "e">>, Num(72)>>,
                   << <<"c", "o", "n", "d", "i", "t", "i", "o", "n">>, Str(<<"s", "u", "n", "n", "y">>)>> >>
JsonObjects == {EmptyObject, LocationParis, WeatherSunny}

TextPart(s) ==
  [type |-> "text", text |-> s, name |-> "", id |-> "",
   args |-> None(EmptyObject), response |-> None(EmptyObject)]
FunctionCallPart(name, args, id) ==
  [type |-> "functionCall", text |-> <<>>, name |-> name, id |-> id,
   args |-> args, response |-> None(EmptyObject)]
FunctionResponsePart(name, response) ==
  [type |-> "functionResponse", text |-> <<>>, name |-> name, id |-> "",
   args |-> None(EmptyObject), response |-> response]

Texts == {<<>>, <<"h", "i">>, <<"a", "\n", "b">>}
\* content.role of a Turn without role: undefined, which no case of a switch
\* equals.
NoRole == "undefined"
Roles == {"user", "model", "system", "function", "unknown", NoRole}
PartPool ==
  {TextPart(s) : s \in Texts}
    \cup {FunctionCallPart("get_weather", a, id) :
            a \in {None(EmptyObject), Some(EmptyObject), Some(LocationParis)},
            id \in {"", "call_123"}}
    \cup {FunctionResponsePart("get_weather", Some(r)) :
            r \in {EmptyObject, WeatherSunny}}
Turns ==
  {[role |-> r, parts |-> ps] :
     r \in Roles, ps \in UNION {[1..n -> PartPool] : n \in 0..MaxParts}}

(***************************************************************************)
(* JSON.stringify and JSON.parse on the values above.                      *)
(***************************************************************************)
\* The decimal digits of a number below 1000, without leading zeros.
NumberText(n) ==
  IF n < 10 THEN <<DigitChars[n + 1]>>
  ELSE IF n < 100 THEN <<DigitChars[(n \div 10) + 1], DigitChars[(n % 10) + 1]>>
  ELSE StatusString(n)

\* The strings of the model need no escaping.
QuotedText(s) == <<"\"">> \o s \o <<"\"">>
ValueText(v) == IF v.t = "string" THEN QuotedText(v.s) ELSE NumberText(v.n)

RECURSIVE MembersText(_)
MembersText(ms) ==
  IF ms = <<>> THEN <<>>
  ELSE QuotedText(Head(ms)[1]) \o <<":">> \o ValueText(Head(ms)[2])
       \o (IF Tail(ms) = <<>> THEN <<>> ELSE <<",">> \o MembersText(Tail(ms)))

\* JSON.stringify(object): the compact serialization.
JSONstringify(object) == <<"{">> \o MembersText(object) \o <<"}">>

\* JSON.parse ignores the white space between tokens; no string of the model
\* holds a space.
WithoutSpaces(text) == SelectSeq(text, LAMBDA c : c # " ")

\* A mutant of JSONparse: a text that is no JSON is taken for the empty object.
JSONparse_Lenient(text) ==
  IF \E o \in JsonObjects : JSONstringify(o) = WithoutSpaces(text)
    THEN [ok |-> TRUE,
          value |-> CHOOSE o \in JsonObjects : JSONstringify(o) = WithoutSpaces(text)]
    ELSE [ok |-> TRUE, value |-> EmptyObject]

\* JSON.parse(text): the object whose serialization the text is, or a
\* SyntaxError when the text is no JSON.
JSONparse(text) ==
  IF \E o \in JsonObjects : JSONstringify(o) = WithoutSpaces(text)
    THEN [ok |-> TRUE,
          value |-> CHOOSE o \in JsonObjects : JSONstringify(o) = WithoutSpaces(text)]
    ELSE [ok |-> FALSE, value |-> EmptyObject]

(***************************************************************************)
(* The message translator: convertToOllamaMessages and                     *)
(* convertToGeminiResponse.                                                *)
(***************************************************************************)
\* A mutant of convertRole: the role is passed through.
convertRole_Same(role) == role

\* convertRole(role)
convertRole(role) ==
  CASE role = "model" -> "assistant"
    [] role = "function" -> "tool"
    [] role = "system" -> "system"
    [] OTHER -> "user"

\* array.join('\n')
RECURSIVE JoinLines(_)
JoinLines(ts) ==
  IF ts = <<>> THEN <<>>
  ELSE IF Len(ts) = 1 THEN ts[1]
  ELSE ts[1] \o <<"\n">> \o JoinLines(Tail(ts))

\* array.map(part => part.text)
TextsOf(parts) == [i \in 1..Len(parts) |-> parts[i].text]

\* A mutant of extractTextFromParts: the texts are joined without a separator.
extractTextFromParts_NoSeparator(parts) ==
  LET ts == TextsOf(parts)
      F[i \in 0..Len(ts)] == IF i = 0 THEN <<>> ELSE F[i - 1] \o ts[i]
  IN F[Len(ts)]

\* extractTextFromParts(parts): filter(part => part.text) keeps the Parts
\* whose text is a non-empty string.
extractTextFromParts(parts) ==
  JoinLines(TextsOf(SelectSeq(parts, LAMBDA part : part.text # <<>>)))

\* The number of generateId() calls the Parts of one Turn cost.
GeneratedIn(parts) ==
  Len(SelectSeq(parts, LAMBDA p : p.type = "functionCall" /\ p.id = ""))

\* A mutant of ArgsOf: the arguments are dropped.
ArgsOf_Dropped(fc) == EmptyObject

\* fc.functionCall.args || {}
ArgsOf(fc) == IF fc.args.present THEN fc.args.value ELSE EmptyObject

\* functionCalls.map(fc => ({ id: fc.functionCall.id || this.generateId(), ... })),
\* the calls of generateId() returning ids[offset + 1], ids[offset + 2], ...
ToolCalls(functionCalls, ids, offset) ==
  [k \in 1..Len(functionCalls) |->
     LET fc == functionCalls[k] IN
     [id |-> IF fc.id # "" THEN fc.id
             ELSE ids[offset + GeneratedIn(SubSeq(functionCalls, 1, k))],
      type |-> "function",
      function |->
        [name |-> fc.name,
         arguments |-> JSONstringify(ArgsOf(fc))]]]

\* A mutant of FunctionResponseOf: the last function response is taken.
FunctionResponseOf_Last(parts) ==
  LET rs == SelectSeq(parts, LAMBDA p : p.type = "functionResponse") IN
  IF rs = <<>> THEN None(TextPart(<<>>)) ELSE Some(rs[Len(rs)])

\* content.parts?.find(part => part.functionResponse)
FunctionResponseOf(parts) ==
  LET rs == SelectSeq(parts, LAMBDA p : p.type = "functionResponse") IN
  IF rs = <<>> THEN None(TextPart(<<>>)) ELSE Some(rs[1])

\* A mutant of ConvertContent: a function response leaves the role as it is.
ConvertContent_RoleKept(content, ids, offset) ==
  LET functionCalls == SelectSeq(content.parts, LAMBDA p : p.type = "functionCall")
      functionResponse == FunctionResponseOf(content.parts)
      message ==
        [role |-> convertRole(content.role),
         content |-> extractTextFromParts(content.parts),
         tool_calls |-> IF Len(functionCalls) > 0
                          THEN Some(ToolCalls(functionCalls, ids, offset))
                          ELSE None(<<>>),
         tool_call_id |-> None("")]
  IN IF functionResponse.present
       THEN [message EXCEPT
               !.tool_call_id = Some(functionResponse.value.name),
               !.content = JSONstringify(functionResponse.value.response.value)]
       ELSE message

\* The callback of contents.map in convertToOllamaMessages.
ConvertContent(content, ids, offset) ==
  LET functionCalls == SelectSeq(content.parts, LAMBDA p : p.type = "functionCall")
      functionResponse == FunctionResponseOf(content.parts)
      message ==
        [role |-> convertRole(content.role),
         content |-> extractTextFromParts(content.parts),
         tool_calls |-> IF Len(functionCalls) > 0
                          THEN Some(ToolCalls(functionCalls, ids, offset))
                          ELSE None(<<>>),
         tool_call_id |-> None("")]
  IN IF functionResponse.present
       THEN [message EXCEPT
               !.role = "tool",
               !.tool_call_id = Some(functionResponse.value.name),
               !.content = JSONstringify(functionResponse.value.response.value)]
       ELSE message

\* A mutant of ContentAfter: the role and the identifiers of the message are
\* written back to the Turn.
ContentAfter_WrittenBack(content, message) ==
  [role |-> message.role,
   parts |-> [j \in 1..Len(content.parts) |->
                IF content.parts[j].type = "functionCall"
                  THEN [content.parts[j] EXCEPT !.id =
                          message.tool_calls.value[
                            Len(SelectSeq(SubSeq(content.parts, 1, j),
                                          LAMBDA p : p.type = "functionCall"))].id]
                  ELSE content.parts[j]]]

\* The Turn of the caller after the callback of contents.map has run on it:
\* the callback assigns to message and to its fields only, filter and find
\* build arrays of their own, and `fc.functionCall.id || this.generateId()`
\* reads the id.
ContentAfter(content, message) == content

\* The caller's Conversation after convertToOllamaMessages has built msgs.
ContentsAfter(contents, msgs) ==
  [i \in 1..Len(contents) |-> ContentAfter(contents[i], msgs[i])]

\* convertToOllamaMessages(contents), ids being what the calls of generateId()
\* return, in order.
RECURSIVE ConvertContents(_, _, _)
ConvertContents(contents, ids, offset) ==
  IF contents = <<>> THEN <<>>
  ELSE <<ConvertContent(Head(contents), ids, offset)>>
       \o ConvertContents(Tail(contents), ids,
                          offset + GeneratedIn(Head(contents).parts))
convertToOllamaMessages(contents, ids) == ConvertContents(contents, ids, 0)

\* The Parts of the tool calls of a response; ok is FALSE when JSON.parse
\* throws for one of the arguments strings.
RECURSIVE ToolCallParts(_)
ToolCallParts(toolCalls) ==
  IF toolCalls = <<>> THEN [ok |-> TRUE, parts |-> <<>>]
  ELSE LET args == JSONparse(Head(toolCalls).function.arguments)
           rest == ToolCallParts(Tail(toolCalls))
       IN IF args.ok /\ rest.ok
            THEN [ok |-> TRUE,
                  parts |-> <<FunctionCallPart(Head(toolCalls).function.name,
                                               Some(args.value), "")>>
                            \o rest.parts]
            ELSE [ok |-> FALSE, parts |-> <<>>]

\* A mutant of convertToGeminiResponse: the tool calls come before the text.
convertToGeminiResponse_CallsFirst(ollamaResponse) ==
  LET text == IF ollamaResponse.message.content # <<>>
                THEN <<TextPart(ollamaResponse.message.content)>> ELSE <<>>
      calls == IF ollamaResponse.message.tool_calls.present
                 THEN ToolCallParts(ollamaResponse.message.tool_calls.value)
                 ELSE [ok |-> TRUE, parts |-> <<>>]
  IN [ok |-> calls.ok,
      parts |-> IF calls.ok THEN calls.parts \o text ELSE <<>>,
      role |-> "model",
      finishReason |-> IF ollamaResponse.done THEN "STOP" ELSE "OTHER"]

\* convertToGeminiResponse(ollamaResponse): the content of the one candidate
\* and its finishReason; ok is FALSE when it throws.
convertToGeminiResponse(ollamaResponse) ==
  LET text == IF ollamaResponse.message.content # <<>>
                THEN <<TextPart(ollamaResponse.message.content)>> ELSE <<>>
      calls == IF ollamaResponse.message.tool_calls.present
                 THEN ToolCallParts(ollamaResponse.message.tool_calls.value)
                 ELSE [ok |-> TRUE, parts |-> <<>>]
  IN [ok |-> calls.ok,
      parts |-> IF calls.ok THEN text \o calls.parts ELSE <<>>,
      role |-> "model",
      finishReason |-> IF ollamaResponse.done THEN "STOP" ELSE "OTHER"]

(***************************************************************************)
(* The capability registry, ollama-model-configs.ts.                       *)
(***************************************************************************)
ModelConfig(tools, streaming, minSize, notes, template) ==
  [supportsToolCalling |-> Some(tools), supportsStreamingTools |-> Some(streaming),
   minSizeForTools |-> minSize, notes |-> Some(notes),
   toolPromptTemplate |-> template]

Key_qwen3 == <<"q", "w", "e", "n", "3">>
Key_qwen25 == <<"q", "w", "e", "n", "2", ".", "5">>
Key_gemma3 == <<"g", "e", "m", "m", "a", "3">>
Key_gemma2 == <<"g", "e", "m", "m", "a", "2">>
Key_llama31 == <<"l", "l", "a", "m", "a", "3", ".", "1">>
Key_llama3 == <<"l", "l", "a", "m", "a", "3">>
Key_phi3 == <<"p", "h", "i", "3">>
Key_default == <<"d", "e", "f", "a", "u", "l", "t">>

\* MODEL_CONFIGS, in the order of Object.entries.
MODEL_CONFIGS ==
  << <<Key_qwen3, ModelConfig(TRUE, TRUE, None(""),
         "Excellent tool calling with built-in thinking capabilities", FALSE)>>,
     <<Key_qwen25, ModelConfig(TRUE, TRUE, Some("1.5"),
         "Good tool calling support, prefer 1.5b or larger", FALSE)>>,
     <<Key_gemma3, ModelConfig(FALSE, FALSE, Some("12"),
         "No native tool support; requires custom Modelfile modifications", TRUE)>>,
     <<Key_gemma2, ModelConfig(FALSE, FALSE, None(""),
         "No native tool support", FALSE)>>,
     <<Key_llama31, ModelConfig(TRUE, TRUE, None(""),
         "Good tool calling support", FALSE)>>,
     <<Key_llama3, ModelConfig(TRUE, TRUE, None(""),
         "Basic tool calling support", FALSE)>>,
     <<Key_phi3, ModelConfig(TRUE, TRUE, Some("3.8"),
         "Adequate tool calling for simple functions", FALSE)>>,
     <<Key_default, ModelConfig(FALSE, FALSE, None(""),
         "Unknown model - tool calling may not work", FALSE)>> >>

Keys == {MODEL_CONFIGS[i][1] : i \in 1..Len(MODEL_CONFIGS)}
\* MODEL_CONFIGS[key] for an own key.
ConfigOf(key) ==
  LET i == CHOOSE j \in 1..Len(MODEL_CONFIGS) : MODEL_CONFIGS[j][1] = key
  IN MODEL_CONFIGS[i][2]

\* MODEL_CONFIGS is a plain object: a name of Object.prototype reads as the
\* inherited property, which is truthy and has none of the fields of an entry.
InheritedNames == {<<"v", "a", "l", "u", "e", "O", "f">>, <<"c", "o", "n", "s", "t", "r", "u", "c", "t", "o", "r">>}
InheritedValue ==
  [supportsToolCalling |-> None(FALSE), supportsStreamingTools |-> None(FALSE),
   minSizeForTools |-> None(""), notes |-> None(""), toolPromptTemplate |-> FALSE]

\* MODEL_CONFIGS[modelName], when it is truthy.
Property(modelName) ==
  IF modelName \in Keys THEN Some(ConfigOf(modelName))
  ELSE IF modelName \in InheritedNames THEN Some(InheritedValue)
  ELSE None(InheritedValue)

\* string.toLowerCase(), on the letters the names of the model use.
UpperChars == <<"Q", "W", "E", "N", "L", "A", "M", "B">>
LowerChars == <<"q", "w", "e", "n", "l", "a", "m", "b">>
LowerChar(c) ==
  IF \E i \in 1..Len(UpperChars) : UpperChars[i] = c
    THEN LowerChars[CHOOSE i \in 1..Len(UpperChars) : UpperChars[i] = c]
    ELSE c
ToLowerCase(s) == [i \in 1..Len(s) |-> LowerChar(s[i])]

\* modelName.split(':')[0]
BeforeColon(s) ==
  IF \E i \in 1..Len(s) : s[i] = ":"
    THEN SubSeq(s, 1, (CHOOSE i \in 1..Len(s) :
                         s[i] = ":" /\ \A j \in 1..(i - 1) : s[j] # ":") - 1)
    ELSE s

\* haystack.includes(needle)
Includes(haystack, needle) ==
  \E i \in 0..(Len(haystack) - Len(needle)) :
    SubSeq(haystack, i + 1, i + Len(needle)) = needle

\* if (baseModel.includes(key) || key.includes(baseModel))
BaseMatches(baseModel, key) == Includes(baseModel, key) \/ Includes(key, baseModel)

\* A mutant of getModelConfig: only an exact match is looked up.
getModelConfig_ExactOnly(modelName) ==
  IF Property(modelName).present THEN Property(modelName).value
  ELSE ConfigOf(Key_default)

\* getModelConfig(modelName)
getModelConfig(modelName) ==
  LET baseModel == ToLowerCase(BeforeColon(modelName))
      hits == {i \in 1..Len(MODEL_CONFIGS) : BaseMatches(baseModel, MODEL_CONFIGS[i][1])}
  IN IF Property(modelName).present THEN Property(modelName).value
     ELSE IF hits # {}
       THEN MODEL_CONFIGS[CHOOSE i \in hits : \A j \in hits : i <= j][2]
     ELSE ConfigOf(Key_default)

\* modelSupportsTools(modelName): config.supportsToolCalling
modelSupportsTools(modelName) == getModelConfig(modelName).supportsToolCalling

\* JavaScript truthiness of an optional boolean.
Truthy(b) == b.present /\ b.value

\* if (modelWithPrefix.startsWith('ollama:')) return modelWithPrefix.substring(7)
OllamaPrefix == <<"o", "l", "l", "a", "m", "a", ":">>
extractModelName(modelWithPrefix) ==
  IF Len(modelWithPrefix) >= Len(OllamaPrefix)
     /\ SubSeq(modelWithPrefix, 1, Len(OllamaPrefix)) = OllamaPrefix
    THEN SubSeq(modelWithPrefix, Len(OllamaPrefix) + 1, Len(modelWithPrefix))
    ELSE modelWithPrefix

\* contents.some(content => content.parts?.some(part =>
\*   part.functionCall || part.functionResponse))
checkForToolCalls(contents) ==
  \E i \in 1..Len(contents) : \E j \in 1..Len(contents[i].parts) :
    contents[i].parts[j].type \in {"functionCall", "functionResponse"}

\* validateModelToolSupport(model): the console.warn calls it makes.
validateModelToolSupport(model) ==
  LET modelConfig == getModelConfig(model) IN
  IF ~Truthy(modelConfig.supportsToolCalling)
    THEN <<"advisory">> \o (IF modelConfig.notes.present THEN <<"note">> ELSE <<>>)
    ELSE <<>>

\* if (hasToolCalls) this.validateModelToolSupport(model)
Advisory_Always(model, contents) == validateModelToolSupport(model)
Advisory(model, contents) ==
  IF checkForToolCalls(contents) THEN validateModelToolSupport(model) ELSE <<>>

(***************************************************************************)
(* The responses of the backend: the JSON body of a unary answer and the   *)
(* records of a streamed body.                                             *)
(***************************************************************************)
\* An arguments string that is no JSON.
BadArguments == <<"{", "b", "a", "d">>

ToolCallOf(arguments) ==
  [id |-> "call_123", type |-> "function",
   function |-> [name |-> "get_weather", arguments |-> arguments]]

\* The OllamaResponse of a payload of the unary call or of a line of a
\* streamed body that has a message.
WireResponse(id, done) ==
  [message |->
     CASE id \in {"call"} ->
            [role |-> "assistant", content |-> <<>>,
             tool_calls |-> Some(<<ToolCallOf(JSONstringify(LocationParis))>>)]
       [] id \in {"badcall", "badargs"} ->
            [role |-> "assistant", content |-> <<"h", "i">>,
             tool_calls |-> Some(<<ToolCallOf(BadArguments)>>)]
       [] OTHER ->
            [role |-> "assistant", content |-> <<"h", "i">>, tool_calls |-> None(<<>>)],
   done |-> done]

(***************************************************************************)
(* Text of a streamed body.  A body is a sequence of newline-terminated    *)
(* lines and an unterminated tail; a line has a length in characters and   *)
(* a kind that tells what line.trim() and JSON.parse make of it:           *)
(*   "msg"     a JSON object with a message,                               *)
(*   "last"    a JSON object with a message and done: true,                *)
(*   "badargs" a JSON object with a message whose tool call arguments are  *)
(*             not JSON,                                                   *)
(*   "nomsg"   JSON without a message,                                     *)
(*   "bad"     not JSON,                                                   *)
(*   "blank"   white space only.                                           *)
(* Text in flight is a sequence of atoms: the characters lo+1..hi of a     *)
(* line, or its terminator.                                                *)
(***************************************************************************)
NoLine == [kind |-> "none", len |-> 0]
BodyLine(b, i) == IF i <= Len(b.lines) THEN b.lines[i] ELSE b.tail
EndPos(b) == [line |-> Len(b.lines) + 1, off |-> b.tail.len]

TextAtom(i, lo, hi) == [line |-> i, lo |-> lo, hi |-> hi, nl |-> FALSE]
NewlineAtom(i) == [line |-> i, lo |-> 0, hi |-> 0, nl |-> TRUE]
AtomLen(a) == IF a.nl THEN 1 ELSE a.hi - a.lo

\* string.length
RECURSIVE TextLen(_)
TextLen(t) == IF t = <<>> THEN 0 ELSE AtomLen(Head(t)) + TextLen(Tail(t))

\* String concatenation: adjacent pieces of one line are one piece of text.
Concat(t, u) ==
  IF t = <<>> THEN u
  ELSE IF u = <<>> THEN t
  ELSE LET a == t[Len(t)]
           c == u[1]
       IN IF ~a.nl /\ ~c.nl /\ a.line = c.line /\ a.hi = c.lo
            THEN SubSeq(t, 1, Len(t) - 1) \o <<TextAtom(a.line, a.lo, c.hi)>> \o Tail(u)
            ELSE t \o u

\* The positions at which the transport may cut the body into chunks.
CutOffsets(len) == {0} \cup {o \in {1, len - 1, len} : 0 < o /\ o <= len}
Cuts(b) ==
  UNION {{[line |-> i, off |-> o] : o \in CutOffsets(b.lines[i].len)} :
           i \in 1..Len(b.lines)}
    \cup {[line |-> Len(b.lines) + 1, off |-> o] : o \in CutOffsets(b.tail.len)}
Later(p, q) == p.line < q.line \/ (p.line = q.line /\ p.off < q.off)

\* The text of the body from position p up to position q.
RECURSIVE ChunkFrom(_, _, _, _)
ChunkFrom(b, i, from, q) ==
  IF i = q.line
    THEN IF from < q.off THEN <<TextAtom(i, from, q.off)>> ELSE <<>>
    ELSE (IF from < b.lines[i].len
            THEN <<TextAtom(i, from, b.lines[i].len)>> ELSE <<>>)
         \o <<NewlineAtom(i)>> \o ChunkFrom(b, i + 1, 0, q)
Chunk(b, p, q) == ChunkFrom(b, p.line, p.off, q)

(***************************************************************************)
(* The line decoder of callOllamaAPIStream.                                *)
(***************************************************************************)
\* A mutant of BufferExceeded: the buffer is not limited.
BufferExceeded_Never(buf) == FALSE

\* A mutant of BufferExceeded: the limit is compared off by one.
BufferExceeded_OffByOne(buf) == TextLen(buf) > MAX_BUFFER_SIZE + 1

\* if (buffer.length > MAX_BUFFER_SIZE)
BufferExceeded(buf) == TextLen(buf) > MAX_BUFFER_SIZE

\* buffer.split('\n')
RECURSIVE SplitAcc(_, _, _)
SplitAcc(t, cur, acc) ==
  IF t = <<>> THEN Append(acc, cur)
  ELSE IF Head(t).nl THEN SplitAcc(Tail(t), <<>>, Append(acc, cur))
  ELSE SplitAcc(Tail(t), Append(cur, Head(t)), acc)
Split(t) == SplitAcc(t, <<>>, <<>>)

\* A mutant of PopLast: the incomplete fragment is dropped.
PopLast_Dropped(ls) == <<>>

\* buffer = lines.pop() || ''
PopLast(ls) == ls[Len(ls)]
\* lines, after lines.pop()
Front(ls) == SubSeq(ls, 1, Len(ls) - 1)

\* What line.trim() and JSON.parse(line) make of the text of a line: the kind
\* of the body line when the text is all of that line; a part of a line is
\* white space when the line is, and is not JSON otherwise.
ParseKind(b, text) ==
  IF text = <<>> THEN "blank"
  ELSE LET i == text[1].line
           whole == /\ Len(text) = 1
                    /\ text[1].lo = 0
                    /\ text[1].hi = BodyLine(b, i).len
       IN IF BodyLine(b, i).kind = "blank" THEN "blank"
          ELSE IF whole THEN BodyLine(b, i).kind
          ELSE "bad"

\* A mutant of TooManyErrors: the decoder gives up one malformed line early.
TooManyErrors_Early(n) == n >= MaxConsecutiveErrors

\* if (++consecutiveErrors > 5), n being the incremented counter
TooManyErrors(n) == n > MaxConsecutiveErrors

\* A mutant of DecodeLines: a blank line resets the count of malformed lines.
RECURSIVE DecodeLines_BlankResets(_, _, _)
DecodeLines_BlankResets(b, ls, errors) ==
  IF ls = <<>>
    THEN [out |-> "read", lines |-> <<>>, errors |-> errors, rec |-> 0]
  ELSE LET kind == ParseKind(b, Head(ls)) IN
    IF kind = "blank" THEN DecodeLines_BlankResets(b, Tail(ls), 0)
    ELSE IF kind = "bad"
      THEN IF TooManyErrors(errors + 1)
             THEN [out |-> "throw", lines |-> Tail(ls), errors |-> errors + 1,
                   rec |-> 0]
             ELSE DecodeLines_BlankResets(b, Tail(ls), errors + 1)
    ELSE [out |-> "yield", lines |-> Tail(ls), errors |-> errors,
          rec |-> Head(ls)[1].line]

\* The for loop over lines from its current line to the next suspension of
\* callOllamaAPIStream: a yield of a parsed record, the throw of the parse
\* error guard, or the end of the loop (back to reader.read()).
RECURSIVE DecodeLines(_, _, _)
DecodeLines(b, ls, errors) ==
  IF ls = <<>>
    THEN [out |-> "read", lines |-> <<>>, errors |-> errors, rec |-> 0]
  ELSE LET kind == ParseKind(b, Head(ls)) IN
    IF kind = "blank" THEN DecodeLines(b, Tail(ls), errors)
    ELSE IF kind = "bad"
      THEN IF TooManyErrors(errors + 1)
             THEN [out |-> "throw", lines |-> Tail(ls), errors |-> errors + 1,
                   rec |-> 0]
             ELSE DecodeLines(b, Tail(ls), errors + 1)
    ELSE [out |-> "yield", lines |-> Tail(ls), errors |-> errors,
          rec |-> Head(ls)[1].line]

\* const chunk = JSON.parse(line), for a line that parses to a record with a
\* message: the record is marked done when the line is the backend's last.
RecordOf(kind) == WireResponse(kind, kind = "last")

\* A mutant of HasMessage: every record is translated and yielded.
HasMessage_Always(kind) == TRUE

\* if (chunk && chunk.message)
HasMessage(kind) == kind \in {"msg", "last", "badargs"}

\* generateContentStream's for await over the decoder, from a resumption of
\* the decoder to the next suspension of the whole: a response yielded to the
\* consumer ("yield"), convertToGeminiResponse throwing ("convert"), the
\* decoder throwing ("throw") or awaiting the next read ("read").  A record
\* without a message is skipped and the decoder resumed at once, which resets
\* consecutiveErrors.  em collects the records the decoder yields on the way.
RECURSIVE RunStream(_, _, _, _)
RunStream(b, ls, errors, em) ==
  LET d == DecodeLines(b, ls, errors) IN
  IF d.out = "yield"
    THEN LET kind == BodyLine(b, d.rec).kind IN
         IF HasMessage(kind)
           THEN [out |-> IF convertToGeminiResponse(RecordOf(kind)).ok
                           THEN "yield" ELSE "convert",
                 lines |-> d.lines, errors |-> d.errors, rec |-> d.rec,
                 emitted |-> Append(em, d.rec)]
           ELSE RunStream(b, d.lines, 0, Append(em, d.rec))
    ELSE [out |-> d.out, lines |-> d.lines, errors |-> d.errors, rec |-> 0,
          emitted |-> em]

(***************************************************************************)
(* What the caller gets.                                                   *)
(***************************************************************************)
Pending == [status |-> "pending", value |-> NoPayload, error |-> NoError,
            wrapped |-> FALSE, model |-> <<>>, endpoint |-> ""]
Returned(value) == [status |-> "returned", value |-> value, error |-> NoError,
                    wrapped |-> FALSE, model |-> <<>>, endpoint |-> ""]

\* const model = this.extractModelName(request.model || this.defaultModel)
ModelOf(prov, req) ==
  extractModelName(IF req.model # <<>> THEN req.model ELSE prov.defaultModel)

\* A mutant of Wrapped: the error is passed on as it is.
Wrapped_Bare(error, prov, req) ==
  [status |-> "threw", value |-> NoPayload, error |-> error,
   wrapped |-> FALSE, model |-> <<>>, endpoint |-> ""]

\* new Error(`Ollama API error for model '${model}': ${error.message}.
\*            Ensure Ollama is running at ${this.endpoint}`)
Wrapped(error, prov, req) ==
  [status |-> "threw", value |-> NoPayload, error |-> error,
   wrapped |-> TRUE, model |-> ModelOf(prov, req), endpoint |-> prov.endpoint]

\* The catch block of generateContent and of generateContentStream.
Threw(error) == Wrapped(error, provider, request)

\* convertToGeminiResponse: JSON.parse(toolCall.function.arguments) throws a
\* SyntaxError for an arguments string that is not JSON.
ConvertOutcome(payload) ==
  IF convertToGeminiResponse(WireResponse(payload.id, TRUE)).ok
    THEN Returned(payload)
    ELSE Threw(MakeError("SyntaxError", <<>>))

(***************************************************************************)
(* Initial state: a provider instance and one request not yet started.     *)
(***************************************************************************)
NoPos == [line |-> 1, off |-> 0]
NoBody == [lines |-> <<>>, tail |-> [kind |-> "none", len |-> 0]]
NoConfig == None(InheritedValue)

\* The fields of a provider constructed without a configuration and without
\* the OLLAMA_ environment variables, and of one configured for another host.
DefaultModel == <<"q", "w", "e", "n", "2", ".", "5", ":", "1", ".", "5", "b">>
DefaultTimeoutText == <<"3", "0", "0", "0", "0">>
DefaultProvider ==
  [endpoint |-> "http://localhost:11434", defaultModel |-> DefaultModel,
   timeout |-> Number(30000)]
RemoteProvider ==
  [endpoint |-> "http://gpu-host:11434", defaultModel |-> Key_gemma2,
   timeout |-> Number(30000)]

\* parseInt(s, 10): white space is skipped, a sign taken, and the decimal
\* digits that follow are the number, whatever comes after them; NaN when no
\* digit follows.
WhiteSpace == {" ", "\t", "\n"}
RECURSIVE TrimStart(_)
TrimStart(s) ==
  IF s # <<>> /\ Head(s) \in WhiteSpace THEN TrimStart(Tail(s)) ELSE s
RECURSIVE DigitsPrefix(_)
DigitsPrefix(s) ==
  IF s # <<>> /\ Head(s) \in DigitSet
    THEN <<Head(s)>> \o DigitsPrefix(Tail(s))
    ELSE <<>>
DigitValue(c) == (CHOOSE i \in 1..10 : DigitChars[i] = c) - 1
RECURSIVE Decimal(_)
Decimal(ds) ==
  IF ds = <<>> THEN 0
  ELSE 10 * Decimal(SubSeq(ds, 1, Len(ds) - 1)) + DigitValue(ds[Len(ds)])
parseInt(s) ==
  LET t == TrimStart(s)
      signed == t # <<>> /\ Head(t) \in {"+", "-"}
      ds == DigitsPrefix(IF signed THEN Tail(t) ELSE t)
  IN IF ds = <<>> THEN NaN
     ELSE IF signed /\ Head(t) = "-" THEN Number(0 - Decimal(ds))
     ELSE Number(Decimal(ds))

\* a || b for an optional a: b when a is undefined or falsy (empty).
OrElse(a, empty, b) == IF a.present /\ a.value # empty THEN a.value ELSE b

\* process.env and a constructor argument without any of the values.
NoEnv ==
  [OLLAMA_ENDPOINT |-> None(""), OLLAMA_HOST |-> None(""),
   OLLAMA_MODEL |-> None(<<>>), OLLAMA_TIMEOUT |-> None(<<>>)]
NoOptions ==
  [endpoint |-> None(""), model |-> None(<<>>), timeout |-> None(Number(0))]

\* The constructor of OllamaProvider: the fields it sets.
OllamaProvider(cfg, e) ==
  [endpoint |->
     OrElse(cfg.endpoint, "",
       OrElse(e.OLLAMA_ENDPOINT, "",
         OrElse(e.OLLAMA_HOST, "", "http://localhost:11434"))),
   defaultModel |->
     OrElse(cfg.model, <<>>, OrElse(e.OLLAMA_MODEL, <<>>, DefaultModel)),
   timeout |->
     IF cfg.timeout.present /\ ~cfg.timeout.value.nan /\ cfg.timeout.value.n # 0
       THEN cfg.timeout.value
       ELSE parseInt(OrElse(e.OLLAMA_TIMEOUT, <<>>, DefaultTimeoutText))]
\* The fields before the constructor has run.
NoProvider == [endpoint |-> "", defaultModel |-> <<>>, timeout |-> Number(0)]

Request(model, contents) == [model |-> model, contents |-> contents]

\* The conversations of the calls that reach the backend.
TextTurn == [role |-> "user", parts |-> <<TextPart(<<"h", "i">>)>>]
ToolCallTurn ==
  [role |-> "model",
   parts |-> <<FunctionCallPart("get_weather", Some(LocationParis), "call_123")>>]
ToolResultTurn ==
  [role |-> "function",
   parts |-> <<FunctionResponsePart("get_weather", Some(WeatherSunny))>>]
CallContents == {<<TextTurn>>, <<TextTurn, ToolCallTurn>>, <<ToolResultTurn>>}
CallModels == {<<>>, <<"o", "l", "l", "a", "m", "a", ":", "g", "e", "m", "m", "a", "3">>, <<"l", "l", "a", "m", "a", "3", ".", "1", ":", "8", "b">>}

\* The state of a call: its parameters and the local variables of the
\* functions it is in.
NewCall(m, req) ==
  [mode |-> m, request |-> req, pc |-> "idle", messages |-> <<>>,
   attempt |-> 0, lastError |-> NoError, attemptLog |-> <<>>,
   invocations |-> 0, requests |-> 0, waits |-> <<>>, result |-> Pending,
   body |-> NoBody, pos |-> NoPos, buffer |-> <<>>, lines |-> <<>>,
   consecutiveErrors |-> 0, raised |-> NoError, emitted |-> <<>>,
   delivered |-> <<>>, reads |-> 0, reader |-> "none", releases |-> 0,
   bodyStream |-> "none", conversation |-> req.contents]
NoCall == NewCall("none", Request(<<>>, <<>>))

\* One call, not yet started.
InitCall ==
  /\ pc = "idle"
  /\ messages = <<>>
  /\ conversation = request.contents
  /\ warnings = <<>>
  /\ responses = <<>>
  /\ config = NoConfig
  /\ attempt = 0
  /\ lastError = NoError
  /\ attemptLog = <<>>
  /\ invocations = 0
  /\ requests = 0
  /\ waits = <<>>
  /\ result = Pending
  /\ body = NoBody
  /\ pos = NoPos
  /\ buffer = <<>>
  /\ lines = <<>>
  /\ consecutiveErrors = 0
  /\ raised = NoError
  /\ emitted = <<>>
  /\ delivered = <<>>
  /\ reads = 0
  /\ reader = "none"
  /\ releases = 0
  /\ bodyStream = "none"

\* What extractProvider and createProviderFromModel have not returned yet.
NoExtracted == [provider |-> <<>>, modelName |-> <<>>]
NoCreated == [status |-> "none", probe |-> "none", warned |-> FALSE]

\* No use of index.ts, a provider constructed without argument and without
\* the OLLAMA_ variables.
InitModule ==
  /\ env = NoEnv
  /\ options = NoOptions
  /\ modelString = None(<<>>)
  /\ extracted = NoExtracted
  /\ created = NoCreated
  /\ probes = 0

InitCommon == other = NoCall /\ InitCall /\ InitModule

InitUnary ==
  /\ mode = "unary"
  /\ provider \in {DefaultProvider, RemoteProvider}
  /\ request \in {Request(m, c) : m \in CallModels, c \in CallContents}
  /\ InitCommon

\* What the calls of generateId() of one convertToOllamaMessages may return:
\* `call_${Date.now()}_${random}`, equal timestamps and random parts included.
GeneratedIds == {"call_1700000000000_k3j9x2a", "call_1700000000000_p0q8m4z"}
RECURSIVE GeneratedCount(_)
GeneratedCount(contents) ==
  IF contents = <<>> THEN 0
  ELSE GeneratedIn(Head(contents).parts) + GeneratedCount(Tail(contents))
IdChoices(contents) == [1..GeneratedCount(contents) -> GeneratedIds]

\* generateContent and generateContentStream up to the try block: the
\* advisory of validateModelToolSupport and the wire messages.
Prelude ==
  /\ warnings' = warnings \o Advisory(ModelOf(provider, request), request.contents)
  /\ \E ids \in IdChoices(request.contents) :
       messages' = convertToOllamaMessages(request.contents, ids)
  /\ conversation' = ContentsAfter(conversation, messages')

(***************************************************************************)
(* Unary path: generateContent over callOllamaAPIWithRetry.                *)
(***************************************************************************)
\* What the backend may answer: with two calls in flight it is held to a few
\* answers and bodies, which keeps the product of the two calls small.
Served(all, few) == IF other.mode = "none" THEN all ELSE few
FewUnaryAnswers ==
  {HttpOk([id |-> "hello", argsValid |-> TRUE], FALSE),
   HttpError(500, TextNo, TRUE), HttpError(404, TextNo, TRUE)}
FewStreamAnswers == {HttpOk(NoPayload, TRUE), HttpError(500, TextNo, TRUE)}

\* The head of the for loop with attempt = att: either operation() is invoked,
\* which issues the fetch of callOllamaAPI, or the loop is left and the
\* executor throws the exhausted error, which generateContent wraps.
LoopHead(att, maxRetries) ==
  /\ attempt' = att
  /\ IF LoopContinues(att, maxRetries)
       THEN /\ invocations' = invocations + 1
            /\ requests' = requests + 1
            /\ pc' = "fetching"
            /\ result' = result
       ELSE /\ pc' = "done"
            /\ result' = Threw(ExhaustedError(maxRetries, lastError'))
            /\ UNCHANGED <<invocations, requests>>

\* generateContent(request) up to the first await of fetch.
GenerateContent ==
  /\ mode = "unary"
  /\ pc = "idle"
  /\ Prelude
  /\ LoopHead(0, DefaultMaxRetries)
  /\ UNCHANGED <<lastError, attemptLog, waits, streamVars, fixedVars>>

\* The fetch of callOllamaAPI settles with resp; the code runs on to the next
\* await or to the end of generateContent.
FetchSettles(resp) ==
  /\ mode = "unary"
  /\ pc = "fetching"
  /\ attemptLog' = Append(attemptLog, resp)
  /\ IF resp.type = "ok"
       THEN \* return await operation(); return this.convertToGeminiResponse(response)
            /\ pc' = "done"
            /\ result' = ConvertOutcome(resp.payload)
            /\ UNCHANGED <<attempt, lastError, invocations, requests, waits>>
       ELSE /\ lastError' = RecordLastError(lastError, OperationError(resp))
            /\ LET r == ExecOnFailure(attempt, lastError', DefaultMaxRetries,
                                      DefaultBackoffMs) IN
               CASE r.next = "throw" ->
                      /\ pc' = "done"
                      /\ result' = Threw(r.error)
                      /\ UNCHANGED <<attempt, invocations, requests, waits>>
                 [] r.next = "sleep" ->
                      /\ pc' = "sleeping"
                      /\ waits' = Append(waits, r.delay)
                      /\ UNCHANGED <<attempt, invocations, requests, result>>
                 [] r.next = "loop" ->
                      /\ LoopHead(attempt + 1, DefaultMaxRetries)
                      /\ UNCHANGED waits
  /\ UNCHANGED <<streamVars, fixedVars, preludeVars>>

\* The backoff timer fires: attempt++ and the loop test.
BackoffElapses ==
  /\ mode = "unary"
  /\ pc = "sleeping"
  /\ lastError' = lastError
  /\ LoopHead(attempt + 1, DefaultMaxRetries)
  /\ UNCHANGED <<attemptLog, waits, streamVars, fixedVars, preludeVars>>

NextUnary ==
  \/ GenerateContent
  \/ \E resp \in Served(UnaryAnswers, FewUnaryAnswers) : FetchSettles(resp)
  \/ BackoffElapses

SpecUnary == InitUnary /\ [][NextUnary]_vars

(***************************************************************************)
(* The bodies the backend may stream.                                      *)
(***************************************************************************)
RECURSIVE Repeat(_, _)
Repeat(x, n) == IF n = 0 THEN <<>> ELSE <<x>> \o Repeat(x, n - 1)

Line(kind, len) == [kind |-> kind, len |-> len]
Kinds == {"msg", "badargs", "nomsg", "bad", "blank"}

\* Runs of malformed lines around at most one other line.
RunBodies ==
  {[lines |-> Repeat(Line("bad", 1), a) \o mid \o Repeat(Line("bad", 1), c),
    tail |-> NoLine] :
     a \in 0..MaxRun, c \in 0..MaxRun,
     mid \in {<<>>, <<Line("msg", 1)>>, <<Line("nomsg", 1)>>, <<Line("blank", 1)>>}}

\* Every short body of short lines, with and without an unterminated tail.
ShortLines == {Line(k, 2) : k \in Kinds} \cup {Line("blank", 0)}
ShortBodies ==
  {[lines |-> ls, tail |-> t] :
     ls \in UNION {[1..n -> ShortLines] : n \in 0..MaxLines},
     t \in {NoLine, Line("msg", 2)}}

\* Bodies with lines around the buffer limit.
LongLengths == {MAX_BUFFER_SIZE \div 2, MAX_BUFFER_SIZE - 1, MAX_BUFFER_SIZE,
                MAX_BUFFER_SIZE + 1}
LongBodies ==
  {[lines |-> <<Line("msg", 2)>> \o ls, tail |-> t] :
     ls \in UNION {[1..n -> {Line("msg", len) : len \in LongLengths}] : n \in 1..2},
     t \in {NoLine}}
  \cup
  {[lines |-> <<Line("msg", 2)>>, tail |-> Line("bad", len)] : len \in LongLengths}

\* Bodies with a record the backend marks as its last (done: true), alone, at
\* the end, and with lines after it.
TerminalBodies ==
  {[lines |-> before \o <<Line("last", 2)>> \o after, tail |-> NoLine] :
     before \in {<<>>, <<Line("msg", 2)>>},
     after \in {<<>>, <<Line("msg", 2)>>, <<Line("last", 2)>>,
                <<Line("bad", 2), Line("nomsg", 2)>>}}

Bodies == RunBodies \cup ShortBodies \cup LongBodies \cup TerminalBodies
FewBodies ==
  {[lines |-> <<Line("msg", 2), Line("bad", 2), Line("msg", 2)>>,
    tail |-> Line("msg", 2)],
   [lines |-> <<Line("bad", 1), Line("nomsg", 2)>>, tail |-> NoLine]}

StreamAnswers ==
  FetchFailures \cup {HttpOk(NoPayload, hasBody) : hasBody \in BOOLEAN}

(***************************************************************************)
(* Streaming path: generateContentStream over callOllamaAPIStream.         *)
(***************************************************************************)
StreamRequests ==
  {Request(<<>>, <<TextTurn>>), Request(<<"o", "l", "l", "a", "m", "a", ":", "g", "e", "m", "m", "a", "3">>, <<TextTurn, ToolCallTurn>>)}
InitStream ==
  /\ mode = "stream"
  /\ provider = DefaultProvider
  /\ request \in StreamRequests
  /\ InitCommon

\* A mutant of StreamCatch: a failure of the stream starts the request over.
StreamCatch_Restart(error) == [pc |-> "idle", result |-> Pending]

\* catch (error) { throw new Error(`Ollama streaming API error ...`) }
StreamCatch(error) == [pc |-> "done", result |-> Threw(error)]

\* A mutant of ReleaseLock: the finally block leaves the reader locked.
ReleaseLock_Skipped ==
  /\ reader' = reader
  /\ releases' = releases

\* finally { reader.releaseLock() }
ReleaseLock ==
  /\ reader' = "released"
  /\ releases' = releases + 1

\* An error thrown inside the try block of callOllamaAPIStream, or by the
\* translation of a record while the decoder is suspended at its yield: the
\* finally block releases the reader, and the error reaches the catch block
\* of generateContentStream.
FailStream(error) ==
  /\ raised' = error
  /\ ReleaseLock
  /\ pc' = StreamCatch(error).pc
  /\ result' = StreamCatch(error).result

\* The state after a run r of the for await loop.
AfterRun(r) ==
  /\ lines' = r.lines
  /\ consecutiveErrors' = r.errors
  /\ emitted' = emitted \o r.emitted
  /\ CASE r.out = "yield" ->
            /\ delivered' = Append(delivered, r.rec)
            /\ pc' = "yielded"
            /\ UNCHANGED <<result, raised, reads, reader, releases>>
       [] r.out = "read" ->
            /\ reads' = reads + 1
            /\ pc' = "reading"
            /\ UNCHANGED <<result, raised, delivered, reader, releases>>
       [] r.out = "throw" ->
            /\ FailStream(MakeError("TooManyParseErrors", <<>>))
            /\ UNCHANGED <<delivered, reads>>
       [] r.out = "convert" ->
            /\ FailStream(MakeError("SyntaxError", <<>>))
            /\ UNCHANGED <<delivered, reads>>

\* The consumer's first next(): callOllamaAPIStreamWithRetry runs the retry
\* executor on an operation that only creates the decoder generator, so
\* attempt 0 returns it at once; the first next() of the for await then starts
\* the decoder, which issues the POST and awaits it.
PullFirst ==
  /\ mode = "stream"
  /\ pc = "idle"
  /\ Prelude
  /\ attempt' = 0
  /\ invocations' = invocations + 1
  /\ requests' = requests + 1
  /\ pc' = "fetching"
  /\ UNCHANGED <<fixedVars, result, lastError, attemptLog, waits, streamVars>>

\* The fetch of callOllamaAPIStream settles with resp; an ok response with a
\* body serves one of Bodies.
StreamFetchSettles(resp) ==
  /\ mode = "stream"
  /\ pc = "fetching"
  /\ attemptLog' = Append(attemptLog, resp)
  /\ IF resp.type = "ok" /\ resp.hasBody
       THEN \* getReader(), buffer = '', consecutiveErrors = 0, first read()
            /\ body' \in Served(Bodies, FewBodies)
            /\ pos' = NoPos
            /\ buffer' = <<>>
            /\ lines' = <<>>
            /\ consecutiveErrors' = 0
            /\ reader' = "locked"
            /\ bodyStream' = "open"
            /\ reads' = reads + 1
            /\ pc' = "reading"
            /\ UNCHANGED <<result, raised, emitted, delivered, releases>>
       ELSE \* thrown before the try block: there is no reader to release
            LET error == IF resp.type = "ok"
                           THEN MakeError("NoReader", <<>>)
                           ELSE OperationError(resp) IN
            /\ raised' = error
            /\ pc' = StreamCatch(error).pc
            /\ result' = StreamCatch(error).result
            /\ UNCHANGED <<body, pos, buffer, lines, consecutiveErrors,
                           emitted, delivered, reads, reader, releases, bodyStream>>
  /\ UNCHANGED <<fixedVars, preludeVars, attempt, lastError, invocations, requests, waits>>

\* buffer += decoder.decode(value, { stream: true }), value being the chunk of
\* the body from position p up to position q.
Appended(buf, b, p, q) == Concat(buf, Chunk(b, p, q))

\* reader.read() settles with the chunk that ends before position q.
ReadSettles(q) ==
  /\ mode = "stream"
  /\ pc = "reading"
  /\ Later(pos, q)
  /\ pos' = q
  /\ LET text == Appended(buffer, body, pos, q) IN
     IF BufferExceeded(text)
       THEN /\ buffer' = text
            /\ FailStream(MakeError("BufferExceeded", <<>>))
            /\ UNCHANGED <<lines, consecutiveErrors, emitted, delivered, reads>>
       ELSE /\ buffer' = PopLast(Split(text))
            /\ AfterRun(RunStream(body, Front(Split(text)), consecutiveErrors, <<>>))
  /\ UNCHANGED <<fixedVars, preludeVars, retryVars, body, bodyStream>>

\* reader.read() settles with done: the loop is left, the reader released,
\* the decoder and generateContentStream return.
ReadDone ==
  /\ mode = "stream"
  /\ pc = "reading"
  /\ pos = EndPos(body)
  /\ ReleaseLock
  /\ bodyStream' = "closed"
  /\ pc' = "done"
  /\ result' = [Pending EXCEPT !.status = "ended"]
  /\ UNCHANGED <<fixedVars, preludeVars, retryVars, body, pos, buffer, lines, consecutiveErrors,
                 raised, emitted, delivered, reads>>

\* reader.read() rejects: the connection broke or the timeout signal fired.
ReadRejects ==
  /\ mode = "stream"
  /\ pc = "reading"
  /\ bodyStream' = "errored"
  /\ FailStream(MakeError("ReadError", <<>>))
  /\ UNCHANGED <<fixedVars, preludeVars, retryVars, body, pos, buffer, lines, consecutiveErrors,
                 emitted, delivered, reads>>

\* A later next() of the consumer: the decoder resumes after its yield
\* (consecutiveErrors = 0) and the for loop goes on.
PullNext ==
  /\ mode = "stream"
  /\ pc = "yielded"
  /\ AfterRun(RunStream(body, lines, 0, <<>>))
  /\ UNCHANGED <<fixedVars, preludeVars, retryVars, body, pos, buffer, bodyStream>>

\* The consumer abandons the sequence (return() on the generator, as a break
\* out of for await does).  Before the first next() nothing has run and the
\* generator just completes.  At a yield, generateContentStream's for await
\* calls return() on the decoder, whose finally block releases the reader;
\* the body stream itself is left as it is.
Abandon ==
  /\ mode = "stream"
  /\ pc \in {"idle", "yielded"}
  /\ IF pc = "yielded" THEN ReleaseLock ELSE UNCHANGED <<reader, releases>>
  /\ pc' = "done"
  /\ result' = [Pending EXCEPT !.status = "cancelled"]
  /\ UNCHANGED <<fixedVars, preludeVars, retryVars, body, pos, buffer, lines, consecutiveErrors,
                 raised, emitted, delivered, reads, bodyStream>>

NextStream ==
  \/ PullFirst
  \/ \E resp \in Served(StreamAnswers, FewStreamAnswers) : StreamFetchSettles(resp)
  \/ \E q \in Cuts(body) : ReadSettles(q)
  \/ ReadDone
  \/ ReadRejects
  \/ PullNext
  \/ Abandon

SpecStream == InitStream /\ [][NextStream]_vars

Init == InitUnary \/ InitStream
Next == NextUnary \/ NextStream
Spec == Init /\ [][Next]_vars

(***************************************************************************)
(* A call on a Conversation the translator has most to write for: a        *)
(* tool-call Part without an identifier and a user Turn with a tool        *)
(* result.                                                                 *)
(***************************************************************************)
UnidentifiedCallTurn ==
  [role |-> "model",
   parts |-> <<TextPart(<<"h", "i">>),
               FunctionCallPart("get_weather", Some(LocationParis), "")>>]
UserResultTurn ==
  [role |-> "user",
   parts |-> <<FunctionResponsePart("get_weather", Some(WeatherSunny))>>]

InitCaller ==
  /\ mode \in {"unary", "stream"}
  /\ provider = DefaultProvider
  /\ request = Request(<<>>, <<UnidentifiedCallTurn, UserResultTurn>>)
  /\ InitCommon

SpecCaller == InitCaller /\ [][Next]_vars

(***************************************************************************)
(* The message translator on its own: a conversation is translated to wire *)
(* messages, and a backend that answers each wire message with a response  *)
(* carrying that message has its responses translated back.                *)
(***************************************************************************)
\* Conversations of one Turn, and some of two.
Conversations ==
  {<<>>} \cup {<<t>> : t \in Turns}
    \cup {<<t, u>> : t \in {TextTurn, ToolCallTurn},
                     u \in {ToolCallTurn, ToolResultTurn,
                            [role |-> "user",
                             parts |-> <<FunctionCallPart("get_weather",
                                                          None(EmptyObject), "")>>]}}

InitTranslate ==
  /\ mode = "translate"
  /\ provider = DefaultProvider
  /\ request \in {Request(<<>>, c) : c \in Conversations}
  /\ InitCommon

\* convertToOllamaMessages(request.contents)
ToWire ==
  /\ mode = "translate"
  /\ pc = "idle"
  /\ \E ids \in IdChoices(request.contents) :
       messages' = convertToOllamaMessages(request.contents, ids)
  /\ conversation' = ContentsAfter(conversation, messages')
  /\ pc' = "wire"
  /\ UNCHANGED <<fixedVars, warnings, result, retryVars, streamVars>>

\* The response of a backend that answers with the wire message it was sent.
ResponseCarrying(message, done) ==
  [message |-> [role |-> "assistant", content |-> message.content,
                tool_calls |-> message.tool_calls],
   done |-> done]

\* convertToGeminiResponse of the response carrying each wire message.
FromWire(done) ==
  /\ mode = "translate"
  /\ pc = "wire"
  /\ responses' = [i \in 1..Len(messages) |->
                     convertToGeminiResponse(ResponseCarrying(messages[i], done))]
  /\ pc' = "done"
  /\ UNCHANGED <<mode, provider, request, config, other, indexVars, preludeVars, result,
                 retryVars, streamVars>>

NextTranslate ==
  \/ ToWire
  \/ \E done \in BOOLEAN : FromWire(done)

SpecTranslate == InitTranslate /\ [][NextTranslate]_vars

(***************************************************************************)
(* The capability registry on its own: getModelConfig of a model name.     *)
(***************************************************************************)
Suffixes == {<<"1", ".", "5", "b">>, <<"7", "b">>, <<"8", "b">>, <<"l", "a", "t", "e", "s", "t">>}
FamilyKeys == Keys \ {Key_default}
\* The text of each key before one of its characters.
Fragments == UNION {{SubSeq(k, 1, n) : n \in 0..(Len(k) - 1)} : k \in Keys} \ Keys
ModelNames ==
  Keys \cup {k \o <<":">> \o x : k \in Keys, x \in Suffixes}
    \cup Fragments \cup InheritedNames
    \cup {<<"u", "n", "k", "n", "o", "w", "n", "-", "m", "o", "d", "e", "l">>, <<"u", "n", "k", "n", "o", "w", "n">>, <<"m", "i", "s", "t", "r", "a", "l", ":", "7", "b">>, <<"q", "w", "e", "n", "3", "-", "i", "n", "s", "t", "r", "u", "c", "t">>,
          <<"Q", "W", "E", "N", "3", ":", "8", "B">>, <<"c", "o", "d", "e", "l", "l", "a", "m", "a", ":", "7", "b">>, <<":", "7", "b">>}

InitRegistry ==
  /\ mode = "registry"
  /\ provider = DefaultProvider
  /\ request \in {Request(name, <<>>) : name \in ModelNames}
  /\ InitCommon

\* getModelConfig(request.model)
LookUp ==
  /\ mode = "registry"
  /\ pc = "idle"
  /\ config' = Some(getModelConfig(request.model))
  /\ pc' = "done"
  /\ UNCHANGED <<mode, provider, request, responses, other, indexVars, preludeVars,
                 result, retryVars, streamVars>>

NextRegistry == LookUp

SpecRegistry == InitRegistry /\ [][NextRegistry]_vars

(***************************************************************************)
(* Two calls on one provider instance, interleaved at their suspension     *)
(* points.  The call the event loop is running is in the variables, the    *)
(* suspended one in other; the fields of the provider and the console are  *)
(* shared.                                                                 *)
(***************************************************************************)
\* The state of the running call, as it is kept while the call is suspended.
Suspended ==
  [mode |-> mode, request |-> request, pc |-> pc, messages |-> messages,
   attempt |-> attempt, lastError |-> lastError, attemptLog |-> attemptLog,
   invocations |-> invocations, requests |-> requests, waits |-> waits,
   result |-> result, body |-> body, pos |-> pos, buffer |-> buffer,
   lines |-> lines, consecutiveErrors |-> consecutiveErrors, raised |-> raised,
   emitted |-> emitted, delivered |-> delivered, reads |-> reads,
   reader |-> reader, releases |-> releases, bodyStream |-> bodyStream,
   conversation |-> conversation]

\* A mutant of Resumed: buffer and consecutiveErrors are fields of the
\* provider, which the resumed call finds as the other call left them.
Resumed_SharedDecoderState(saved, running) ==
  [saved EXCEPT !.buffer = running.buffer,
                !.consecutiveErrors = running.consecutiveErrors]

\* What a call finds when it is resumed: attempt and lastError are locals of
\* callOllamaAPIWithRetry, buffer and consecutiveErrors locals of
\* callOllamaAPIStream, so it finds its own.
Resumed(saved, running) == saved

\* The event loop turns from the running call, which is at a suspension
\* point, to the other one.
Switch ==
  /\ other.mode # "none"
  /\ other' = Suspended
  /\ LET call == Resumed(other, Suspended) IN
     /\ mode' = call.mode
     /\ request' = call.request
     /\ pc' = call.pc
     /\ messages' = call.messages
     /\ attempt' = call.attempt
     /\ lastError' = call.lastError
     /\ attemptLog' = call.attemptLog
     /\ invocations' = call.invocations
     /\ requests' = call.requests
     /\ waits' = call.waits
     /\ result' = call.result
     /\ body' = call.body
     /\ pos' = call.pos
     /\ buffer' = call.buffer
     /\ lines' = call.lines
     /\ consecutiveErrors' = call.consecutiveErrors
     /\ raised' = call.raised
     /\ emitted' = call.emitted
     /\ delivered' = call.delivered
     /\ reads' = call.reads
     /\ reader' = call.reader
     /\ releases' = call.releases
     /\ bodyStream' = call.bodyStream
     /\ conversation' = call.conversation
  /\ UNCHANGED <<provider, warnings, responses, config, indexVars>>

InitConcurrent ==
  /\ provider = DefaultProvider
  /\ \E m \in {"unary", "stream"} :
       /\ mode = m
       /\ request = Request(<<>>, <<TextTurn>>)
  /\ InitCall
  /\ InitModule
  /\ \E m \in {"unary", "stream"} :
       other = NewCall(m, Request(Key_gemma3, <<TextTurn, ToolCallTurn>>))

NextConcurrent == NextUnary \/ NextStream \/ Switch

SpecConcurrent == InitConcurrent /\ [][NextConcurrent]_vars

(***************************************************************************)
(* The constructor on its own: new OllamaProvider(config) under an          *)
(* environment.                                                            *)
(***************************************************************************)
CustomModel == <<"c", "u", "s", "t", "o", "m", "-", "m", "o", "d", "e", "l">>
ConfigOptions ==
  {[endpoint |-> ep, model |-> m, timeout |-> t] :
     ep \in {None(""), Some(""), Some("http://explicit-host:11434")},
     m \in {None(<<>>), Some(<<>>), Some(Key_gemma2)},
     t \in {None(Number(0)), Some(Number(0)), Some(Number(5000))}}
Environments ==
  {[OLLAMA_ENDPOINT |-> ep, OLLAMA_HOST |-> h, OLLAMA_MODEL |-> m,
    OLLAMA_TIMEOUT |-> t] :
     ep \in {None(""), Some(""), Some("http://custom-host:8080")},
     h \in {None(""), Some("http://other-host:11434")},
     m \in {None(<<>>), Some(CustomModel)},
     t \in {None(<<>>), Some(<<>>), Some(<<"6", "0", "0", "0", "0">>),
            Some(<<"a", "b", "c">>), Some(<<"3", "0", "s">>)}}

InitConfig ==
  /\ mode = "config"
  /\ provider = NoProvider
  /\ request = Request(<<>>, <<>>)
  /\ other = NoCall
  /\ InitCall
  /\ env \in Environments
  /\ options \in ConfigOptions
  /\ modelString = None(<<>>)
  /\ extracted = NoExtracted
  /\ created = NoCreated
  /\ probes = 0

\* new OllamaProvider(options)
Construct ==
  /\ mode = "config"
  /\ pc = "idle"
  /\ provider' = OllamaProvider(options, env)
  /\ pc' = "done"
  /\ UNCHANGED <<mode, request, responses, config, other, indexVars,
                 preludeVars, result, retryVars, streamVars>>

NextConfig == Construct

SpecConfig == InitConfig /\ [][NextConfig]_vars

(***************************************************************************)
(* The provider index, index.ts: extractProvider, the registry of provider *)
(* factories with its ollama factory, and createProviderFromModel.         *)
(***************************************************************************)
MaxProbes == 2    \* most GET /api/version requests of one provider

\* model.indexOf(':'), counted from 1; 0 when there is no colon.
IndexOfColon(model) ==
  IF \E i \in 1..Len(model) : model[i] = ":"
    THEN CHOOSE i \in 1..Len(model) :
           model[i] = ":" /\ \A j \in 1..(i - 1) : model[j] # ":"
    ELSE 0

DefaultName == <<"d", "e", "f", "a", "u", "l", "t">>

\* A mutant of extractProvider: the string is split at its last colon.
extractProvider_LastColon(model) ==
  IF ~model.present \/ model.value = <<>>
    THEN [provider |-> DefaultName, modelName |-> <<>>]
  ELSE IF IndexOfColon(model.value) = 0
    THEN [provider |-> DefaultName, modelName |-> model.value]
  ELSE LET last == CHOOSE i \in 1..Len(model.value) :
                     /\ model.value[i] = ":"
                     /\ \A j \in (i + 1)..Len(model.value) : model.value[j] # ":"
       IN [provider |-> SubSeq(model.value, 1, last - 1),
           modelName |-> SubSeq(model.value, last + 1, Len(model.value))]

\* extractProvider(model); a model that is null or undefined is absent.
extractProvider(model) ==
  IF ~model.present \/ model.value = <<>>
    THEN [provider |-> DefaultName, modelName |-> <<>>]
  ELSE LET colonIndex == IndexOfColon(model.value) IN
       IF colonIndex = 0
         THEN [provider |-> DefaultName, modelName |-> model.value]
         ELSE [provider |-> SubSeq(model.value, 1, colonIndex - 1),
               modelName |-> SubSeq(model.value, colonIndex + 1, Len(model.value))]

\* The names providerRegistry holds: the module registers ollama.
providerRegistry == {<<"o", "l", "l", "a", "m", "a">>}
isProviderSupported(providerName) == providerName \in providerRegistry

\* What provider.isAvailable() comes to for each outcome of its fetch: true
\* for a 2xx answer, false for another answer and for a rejected fetch; the
\* mocked provider of index.test.ts has it raise.
ProbeOutcomes == {"ok", "notOk", "rejected", "raised"}
isAvailable(outcome) ==
  CASE outcome = "ok" -> [raised |-> FALSE, value |-> TRUE]
    [] outcome = "raised" -> [raised |-> TRUE, value |-> FALSE]
    [] OTHER -> [raised |-> FALSE, value |-> FALSE]

NotRunningMessage == <<"O", "l", "l", "a", "m", "a", " ", "i", "s", " ", "n", "o", "t", " ", "r", "u", "n", "n", "i", "n", "g", ".", " ", "P", "l", "e", "a", "s", "e", " ", "s", "t", "a", "r", "t", " ", "O", "l", "l", "a", "m", "a", " ", "w", "i", "t", "h", ":", " ", "o", "l", "l", "a", "m", "a", " ", "s", "e", "r", "v", "e">>
ConnectionFailedMessage == <<"C", "o", "n", "n", "e", "c", "t", "i", "o", "n", " ", "f", "a", "i", "l", "e", "d">>

\* The ollama factory after the probe: it returns the wrapped provider or
\* throws.
Factory(outcome) ==
  LET available == isAvailable(outcome) IN
  IF available.raised
    THEN [threw |-> TRUE, error |-> MakeError("Error", ConnectionFailedMessage)]
  ELSE IF ~available.value
    THEN [threw |-> TRUE, error |-> MakeError("Error", NotRunningMessage)]
  ELSE [threw |-> FALSE, error |-> NoError]

\* A mutant of Caught: the failure of the factory is passed on.
Caught_Rethrown(outcome, made) ==
  IF made.threw
    THEN [status |-> "threw", probe |-> outcome, warned |-> FALSE]
    ELSE [status |-> "provider", probe |-> outcome, warned |-> FALSE]

\* try { return await getProvider(...) } catch (error) { console.warn(...);
\* return null }
Caught(outcome, made) ==
  IF made.threw
    THEN [status |-> "null", probe |-> outcome, warned |-> TRUE]
    ELSE [status |-> "provider", probe |-> outcome, warned |-> FALSE]

EmbeddingMessage == <<"E", "m", "b", "e", "d", "d", "i", "n", "g", " ", "i", "s", " ", "n", "o", "t", " ", "s", "u", "p", "p", "o", "r", "t", "e", "d", " ", "b", "y", " ", "t", "h", "e", " ", "O", "l", "l", "a", "m", "a", " ", "p", "r", "o", "v", "i", "d", "e", "r", ".", " ", "P", "l", "e", "a", "s", "e", " ", "u", "s", "e", " ", "a", " ", "d", "i", "f", "f", "e", "r", "e", "n", "t", " ", "p", "r", "o", "v", "i", "d", "e", "r", " ", "f", "o", "r", " ", "e", "m", "b", "e", "d", "d", "i", "n", "g", " ", "o", "p", "e", "r", "a", "t", "i", "o", "n", "s", ".">>

\* A mutant of embedContent: a vector is returned.
embedContent_ZeroVector(req) == Returned(NoPayload)

\* embedContent of the wrapped provider.
embedContent(req) ==
  [status |-> "threw", value |-> NoPayload,
   error |-> MakeError("Error", EmbeddingMessage),
   wrapped |-> FALSE, model |-> <<>>, endpoint |-> ""]

ModelStrings ==
  {None(<<>>), Some(<<>>)} \cup
  {Some(m) : m \in {<<"o", "l", "l", "a", "m", "a", ":", "l", "l", "a", "m", "a", "3">>,
                   <<"l", "l", "a", "m", "a", "3">>,
                   <<"o", "l", "l", "a", "m", "a", ":", "m", "o", "d", "e", "l", ":", "w", "i", "t", "h", ":", "c", "o", "l", "o", "n", "s">>,
                   <<"o", "l", "l", "a", "m", "a", ":", "q", "w", "e", "n", "2", ".", "5", ":", "1", ".", "5", "b">>,
                   <<"u", "n", "s", "u", "p", "p", "o", "r", "t", "e", "d", ":", "m", "o", "d", "e", "l">>,
                   <<"d", "e", "f", "a", "u", "l", "t", ":", "l", "l", "a", "m", "a", "3">>,
                   <<"O", "l", "l", "a", "m", "a", ":", "l", "l", "a", "m", "a", "3">>,
                   <<"o", "l", "l", "a", "m", "a", ":">>,
                   <<":", "l", "l", "a", "m", "a", "3">>,
                   <<":">>}}
FactoryOptions ==
  {NoOptions,
   [endpoint |-> Some("http://explicit-host:11434"), model |-> Some(Key_gemma2),
    timeout |-> Some(Number(5000))]}
FactoryEnvironments == {NoEnv, [NoEnv EXCEPT !.OLLAMA_MODEL = Some(CustomModel)]}

InitProviders ==
  /\ mode = "providers"
  /\ provider = NoProvider
  /\ request = Request(<<>>, <<>>)
  /\ other = NoCall
  /\ InitCall
  /\ env \in FactoryEnvironments
  /\ options \in FactoryOptions
  /\ modelString \in ModelStrings
  /\ extracted = NoExtracted
  /\ created = NoCreated
  /\ probes = 0

\* extractProvider(modelString), called by the application.
ExtractProvider ==
  /\ mode = "providers"
  /\ pc = "idle"
  /\ extracted' = extractProvider(modelString)
  /\ pc' = "extracted"
  /\ UNCHANGED <<mode, provider, request, responses, config, other, env,
                 options, modelString, created, probes, preludeVars, result,
                 retryVars, streamVars>>

\* createProviderFromModel(modelString, options) up to its return of null or
\* to the await of the probe in the factory, which has constructed the
\* provider with { ...config, model: modelName }.
CreateProviderFromModel ==
  /\ mode = "providers"
  /\ pc \in {"idle", "extracted"}
  /\ extracted' = extractProvider(modelString)
  /\ IF extracted'.provider = DefaultName \/ ~isProviderSupported(extracted'.provider)
       THEN /\ created' = [status |-> "null", probe |-> "none", warned |-> FALSE]
            /\ pc' = "created"
            /\ UNCHANGED <<provider, probes>>
       ELSE /\ provider' = OllamaProvider(
                             [options EXCEPT !.model = Some(extracted'.modelName)], env)
            /\ probes' = probes + 1
            /\ created' = [status |-> "probing", probe |-> "none", warned |-> FALSE]
            /\ pc' = "probing"
  /\ UNCHANGED <<mode, request, responses, config, other, env, options,
                 modelString, preludeVars, result, retryVars, streamVars>>

\* The probe of the factory settles; createProviderFromModel returns.
ProbeSettles(outcome) ==
  /\ mode = "providers"
  /\ pc = "probing"
  /\ created' = Caught(outcome, Factory(outcome))
  /\ pc' = "created"
  /\ UNCHANGED <<mode, provider, request, responses, config, other, env,
                 options, modelString, extracted, probes, preludeVars, result,
                 retryVars, streamVars>>

\* isAvailable() of the provider createProviderFromModel returned, whatever
\* it answers.
IsAvailable ==
  /\ mode = "providers"
  /\ pc = "created"
  /\ created.status = "provider"
  /\ probes < MaxProbes
  /\ probes' = probes + 1
  /\ UNCHANGED <<mode, pc, provider, request, responses, config, other, env,
                 options, modelString, extracted, created, preludeVars, result,
                 retryVars, streamVars>>

\* embedContent(req) of the provider createProviderFromModel returned.
EmbedContent(req) ==
  /\ mode = "providers"
  /\ pc = "created"
  /\ created.status = "provider"
  /\ result' = embedContent(req)
  /\ UNCHANGED <<pc, fixedVars, preludeVars, retryVars, streamVars>>

NextProviders ==
  \/ ExtractProvider
  \/ CreateProviderFromModel
  \/ \E outcome \in ProbeOutcomes : ProbeSettles(outcome)
  \/ IsAvailable
  \/ \E c \in CallContents : EmbedContent(Request(<<>>, c))

SpecProviders == InitProviders /\ [][NextProviders]_vars

(***************************************************************************)
(* Claims about the message translator.                                    *)
(***************************************************************************)
Translated == mode = "translate" /\ pc = "done"
TextOnly(turn) == \A j \in 1..Len(turn.parts) : turn.parts[j].type = "text"
\* The Turn a response was translated to.
TurnOf(response) == [role |-> response.role, parts |-> response.parts]

RECURSIVE NonEmptyJoined(_, _)
NonEmptyJoined(parts, started) ==
  IF parts = <<>> THEN <<>>
  ELSE IF Head(parts).text = <<>> THEN NonEmptyJoined(Tail(parts), started)
  ELSE (IF started THEN <<"\n">> ELSE <<>>) \o Head(parts).text
       \o NonEmptyJoined(Tail(parts), TRUE)

FunctionCallsOf(turn) == SelectSeq(turn.parts, LAMBDA p : p.type = "functionCall")
\* The tool-call Parts of a response, in order.
CallPartsOf(response) == SelectSeq(response.parts, LAMBDA p : p.type = "functionCall")

\* C12: the k-th tool-call Part of a Turn, with name n and arguments a, is the
\* k-th tool_calls entry of its wire message, with function name n and an
\* arguments string that parses to a (to the empty object when a is absent);
\* and the response carrying the entry translates to a tool-call Part with
\* name n and these arguments.
C12_ToolCallArgumentsRoundTrip ==
  Translated =>
    \A i \in 1..Len(request.contents) :
      LET calls == FunctionCallsOf(request.contents[i]) IN
      \A k \in 1..Len(calls) :
        LET a == IF calls[k].args.present THEN calls[k].args.value ELSE EmptyObject
            entry == messages[i].tool_calls.value[k]
        IN /\ messages[i].tool_calls.present
           /\ Len(messages[i].tool_calls.value) = Len(calls)
           /\ entry.function.name = calls[k].name
           /\ JSONparse(entry.function.arguments) = [ok |-> TRUE, value |-> a]
           /\ responses[i].ok
           /\ Len(CallPartsOf(responses[i])) = Len(calls)
           /\ CallPartsOf(responses[i])[k].name = calls[k].name
           /\ CallPartsOf(responses[i])[k].args = Some(a)

\* A call with the arguments {location: "Paris"} and a call without
\* arguments have made the round trip.
C12_Witness ==
  /\ Translated
  /\ \E i \in 1..Len(request.contents) :
       /\ Len(request.contents[i].parts) = 2
       /\ request.contents[i].parts[1].type = "functionCall"
       /\ request.contents[i].parts[1].args = Some(LocationParis)
       /\ request.contents[i].parts[2].type = "functionCall"
       /\ ~request.contents[i].parts[2].args.present
       /\ messages[i].tool_calls.value[1].function.arguments =
            <<"{", "\"", "l", "o", "c", "a", "t", "i", "o", "n", "\"", ":", "\"", "P", "a", "r", "i", "s", "\"", "}">>
       /\ messages[i].tool_calls.value[2].function.arguments = <<"{", "}">>
       /\ responses[i].parts[1].args = Some(LocationParis)
       /\ responses[i].parts[2].args = Some(EmptyObject)

FunctionResponsesOf(turn) ==
  SelectSeq(turn.parts, LAMBDA p : p.type = "functionResponse")

\* C13: a Turn with a tool-result Part naming f with the result r (the first
\* one, should there be more) has a wire message with role tool, tool_call_id
\* f and the compact JSON of r as content, whatever its role and its texts.
C13_ToolResultTranslation ==
  mode = "translate" /\ pc \in {"wire", "done"} =>
    \A i \in 1..Len(request.contents) :
      LET results == FunctionResponsesOf(request.contents[i]) IN
      results # <<>> =>
        /\ messages[i].role = "tool"
        /\ messages[i].tool_call_id = Some(results[1].name)
        /\ messages[i].content = JSONstringify(results[1].response.value)

\* A user Turn of a text and the get_weather result has been translated.
C13_Witness ==
  /\ mode = "translate" /\ pc = "wire"
  /\ request.contents =
       <<[role |-> "user",
          parts |-> <<TextPart(<<"h", "i">>),
                      FunctionResponsePart("get_weather", Some(WeatherSunny))>>]>>
  /\ messages[1].role = "tool"
  /\ messages[1].tool_call_id = Some("get_weather")
  /\ messages[1].content = <<"{", "\"", "t", "e", "m", "p", "e", "r", "a", "t", "u", "r", "e", "\"", ":", "7", "2", ",", "\"", "c", "o", "n", "d", "i", "t", "i", "o", "n", "\"", ":", "\"", "s", "u", "n", "n", "y", "\"", "}">>

(***************************************************************************)
(* Claims about the capability registry.                                   *)
(***************************************************************************)
LookedUp == mode = "registry" /\ pc = "done"
BaseOf(name) == ToLowerCase(BeforeColon(name))
DefaultEntry == ConfigOf(Key_default)

\* C15 as it is stated: getModelConfig(K + ':' + S) is the entry registered
\* under the family key K, for every family key K and suffix S.
C15_Orig_SuffixStripping ==
  LookedUp =>
    \A k \in FamilyKeys : \A x \in Suffixes :
      request.model = k \o <<":">> \o x => config = Some(ConfigOf(k))

\* C16 as it is stated: a name that is no registered key and whose base name
\* contains no family key resolves to the default entry, and
\* modelSupportsTools is false for it.
C16_Orig_DefaultForUnmatched ==
  ( /\ LookedUp
    /\ request.model \notin Keys
    /\ \A k \in FamilyKeys : ~Includes(BaseOf(request.model), k) )
  => /\ config = Some(DefaultEntry)
     /\ modelSupportsTools(request.model) = Some(FALSE)

\* The registered keys related to the base name by containment.
MatchingKeys(name) == {k \in Keys : BaseMatches(BaseOf(name), k)}

\* C17 as it is stated: the entry of an exactly matching key; otherwise the
\* entry of a longest matching key; the default entry when no key matches.
C17_Orig_LongestMatch ==
  LookedUp =>
    IF request.model \in Keys THEN config = Some(ConfigOf(request.model))
    ELSE IF MatchingKeys(request.model) # {}
      THEN \E k \in MatchingKeys(request.model) :
             /\ \A longer \in MatchingKeys(request.model) : Len(longer) <= Len(k)
             /\ config = Some(ConfigOf(k))
    ELSE config = Some(DefaultEntry)

(***************************************************************************)
(* Claims about the retry executor on the unary path.                      *)
(***************************************************************************)
LastAnswer == attemptLog[Len(attemptLog)]
IsClientStatus(resp) == resp.type = "http" /\ resp.status \in 400..499
\* A failure the policy names retryable: a network error, a timeout, or a
\* status outside 400-499 whose error text does not itself quote a 4xx status
\* line.
RetryableFailure(resp) ==
  \/ resp.type = "reject"
  \/ /\ resp.type = "http"
     /\ resp.status \notin 400..499
     /\ ErrorText(resp) # TextProxy404
MessageOf(resp) ==
  IF resp.type = "reject" THEN resp.text
  ELSE HttpErrorMessage(resp.status, IF resp.textOk THEN resp.text ELSE StatusText)

\* C1: on the unary path, when the operation has failed with retryable errors
\* on its first k attempts (k < maxAttempts = 3) and succeeds on attempt k+1,
\* the call is over, it returns the result of that attempt, and the operation
\* has been invoked (and the backend called) exactly k+1 times.
C1_SuccessAfterRetries ==
  (mode = "unary" /\ attemptLog # <<>> /\ LastAnswer.type = "ok")
    => /\ \A i \in 1..(Len(attemptLog) - 1) : RetryableFailure(attemptLog[i])
       /\ Len(attemptLog) <= DefaultMaxRetries
       /\ pc = "done"
       /\ invocations = Len(attemptLog)
       /\ requests = Len(attemptLog)
       /\ LastAnswer.payload.argsValid
            => (result.status = "returned" /\ result.value = LastAnswer.payload)

C1_Witness ==
  /\ mode = "unary"
  /\ Len(attemptLog) = 3
  /\ attemptLog[1].status = 500
  /\ attemptLog[2].status = 503
  /\ attemptLog[3].type = "ok"
  /\ result = Returned([id |-> "hello", argsValid |-> TRUE])
  /\ invocations = 3

\* C2: an attempt that fails with an HTTP status 400-499, be it the first or a
\* later one, is the last: the operation is not invoked again, no backoff is
\* waited after it, and the caller gets the error "HTTP <status>: <text>" with
\* the response body text when it can be read and the status text otherwise.
C2_ClientErrorNotRetried ==
  mode = "unary" =>
    \A i \in DOMAIN attemptLog :
      IsClientStatus(attemptLog[i]) =>
        /\ i = Len(attemptLog)
        /\ pc = "done"
        /\ invocations = i
        /\ requests = i
        /\ Len(waits) = i - 1
        /\ result.status = "threw"
        /\ result.error.kind = "Error"
        /\ result.error.message = MessageOf(attemptLog[i])

C2_Witness ==
  /\ mode = "unary"
  /\ Len(attemptLog) = 2
  /\ attemptLog[1].status = 503
  /\ attemptLog[2].status = 404
  /\ ~attemptLog[2].textOk
  /\ result.status = "threw"
  /\ result.error.message = HttpErrorMessage(404, StatusText)

\* C3 (as claimed): every failure that is not an HTTP 4xx client error - a
\* network error, a timeout, or a 5xx status with any body text - is followed
\* by another attempt whenever fewer than maxAttempts attempts have been made.
C3_Orig_NonClientFailureRetried ==
  (/\ mode = "unary"
   /\ attemptLog # <<>>
   /\ LastAnswer.type # "ok"
   /\ ~IsClientStatus(LastAnswer)
   /\ Len(attemptLog) < DefaultMaxRetries)
    => (result.status = "pending" /\ pc \in {"sleeping", "fetching"})

C5_Orig_EstablishmentRetried ==
  (/\ mode = "stream"
   /\ attemptLog # <<>>
   /\ RetryableFailure(LastAnswer)
   /\ Len(attemptLog) < StreamMaxRetries)
    => result.status = "pending"

NoDuplicates(seq) == \A i, j \in DOMAIN seq : seq[i] = seq[j] => i = j

\* C6: once streaming has begun (a read of the body has been issued), a
\* failure inside the stream - a failing read, the buffer limit, the parse
\* error limit, a translation error - ends the request at once with that
\* error on the consumer's pending pull; only one HTTP request is ever
\* issued, and no record is delivered twice.
C6_MidStreamFailureNotRetried ==
  (mode = "stream" /\ reads >= 1)
    => /\ requests = 1
       /\ NoDuplicates(delivered)
       /\ raised # NoError
            => (pc = "done" /\ result.status = "threw" /\ result.error = raised)

C6_Witness ==
  /\ mode = "stream"
  /\ reads >= 2
  /\ Len(delivered) >= 1
  /\ raised.kind = "ReadError"
  /\ result.status = "threw"
  /\ requests = 1

\* The terminated lines of a body that parse, by line number, in body order.
RECURSIVE ParsedLines(_, _)
ParsedLines(b, n) ==
  IF n = 0 THEN <<>>
  ELSE ParsedLines(b, n - 1)
         \o (IF b.lines[n].kind \in {"msg", "last", "badargs", "nomsg"} THEN <<n>> ELSE <<>>)
IsPrefix(t, u) == Len(t) <= Len(u) /\ SubSeq(u, 1, Len(t)) = t

\* C7: however the body is cut into chunks, the records the decoder emits are
\* the terminated non-blank lines that parse, in body order, each once: at any
\* time a prefix of them, and all of them when the source signals the end of
\* the data; the text after the last terminator is then dropped and the
\* sequence ends without an error.
C7_DecoderEmitsParsedLines ==
  mode = "stream" =>
    /\ IsPrefix(emitted, ParsedLines(body, Len(body.lines)))
    /\ result.status = "ended"
         => /\ emitted = ParsedLines(body, Len(body.lines))
            /\ raised = NoError
            /\ pos = EndPos(body)

C7_Witness ==
  /\ mode = "stream"
  /\ result.status = "ended"
  /\ Len(body.lines) = 2
  /\ body.lines[1].kind = "msg"
  /\ body.lines[2].kind = "msg"
  /\ body.tail.kind = "msg"
  /\ reads >= 4
  /\ emitted = <<1, 2>>
  /\ delivered = <<1, 2>>

\* The text after the last line terminator of a text.
RECURSIVE AfterLastNewline(_)
AfterLastNewline(t) ==
  IF t = <<>> \/ t[Len(t)].nl THEN <<>>
  ELSE Append(AfterLastNewline(SubSeq(t, 1, Len(t) - 1)), t[Len(t)])

\* C8: when appending a chunk leaves more than the maximum buffer size of
\* text after the last line terminator, the decoder fails with the
\* buffer-exceeded error and emits no record from that chunk; on the first
\* chunk no record at all has been emitted.
C8_BufferExceeded ==
  [][ (/\ mode = "stream"
       /\ pc = "reading"
       /\ pos' # pos
       /\ TextLen(AfterLastNewline(Appended(buffer, body, pos, pos')))
            > MAX_BUFFER_SIZE)
        => /\ raised'.kind = "BufferExceeded"
           /\ pc' = "done"
           /\ result'.status = "threw"
           /\ emitted' = emitted
           /\ delivered' = delivered
           /\ reads = 1 => emitted' = <<>> ]_vars

C8_Witness ==
  /\ mode = "stream"
  /\ raised.kind = "BufferExceeded"
  /\ reads = 1
  /\ body.lines[1].kind = "msg"
  /\ pos.line = 2
  /\ emitted = <<>>

\* The number of malformed lines up to and including line i since the last
\* line that parsed (blank lines neither count nor end the run).
RECURSIVE BadRun(_, _)
BadRun(b, i) ==
  IF i = 0 THEN 0
  ELSE CASE b.lines[i].kind = "bad" -> BadRun(b, i - 1) + 1
         [] b.lines[i].kind = "blank" -> BadRun(b, i - 1)
         [] OTHER -> 0
\* The lines that are the sixth malformed line of a run.
SixthMalformed(b) ==
  {i \in 1..Len(b.lines) :
     b.lines[i].kind = "bad" /\ BadRun(b, i) = MaxConsecutiveErrors + 1}
\* The number of terminated lines the for loop has gone through.
Handled == (pos.line - 1) - Len(lines)

\* C9: with a tolerance of five the decoder fails with the parse error limit
\* exactly when it processes a sixth malformed line with no parsed line since
\* the run began, wherever the chunk boundaries fall: it fails only at the
\* first such line, having emitted every parsed line before it, and it never
\* goes past such a line; a body without a run of six never fails so.
C9_TooManyParseErrors ==
  mode = "stream" =>
    /\ raised.kind = "TooManyParseErrors"
         => /\ Handled \in SixthMalformed(body)
            /\ \A i \in SixthMalformed(body) : Handled <= i
            /\ emitted = ParsedLines(body, Handled)
            /\ consecutiveErrors = MaxConsecutiveErrors + 1
    /\ (pc \in {"reading", "yielded"} \/ result.status \in {"ended", "cancelled"})
         => \A i \in SixthMalformed(body) : Handled < i

C9_Witness ==
  /\ mode = "stream"
  /\ raised.kind = "TooManyParseErrors"
  /\ Len(body.lines) = 12
  /\ \A i \in 1..5 : body.lines[i].kind = "bad"
  /\ body.lines[6].kind = "msg"
  /\ emitted = <<6>>
  /\ reads >= 4

\* C10 (as claimed): when the consumer abandons the sequence after having
\* pulled at least one response and before exhaustion, the response body is
\* cancelled or closed (not merely unlocked), and there is no further read
\* and no new HTTP request.
C10_Orig_CancelReleasesConnection ==
  (mode = "stream" /\ result.status = "cancelled" /\ Len(delivered) >= 1)
    => /\ bodyStream \in {"cancelled", "closed"}
       /\ reader = "released"
       /\ requests = 1

(***************************************************************************)
(* Claims about the provider bridge: the advisory and the wrapped errors.  *)
(***************************************************************************)
\* What generateContent has come to when its fetches were answered by log,
\* in order, from attempt att on: what the retry executor and the translation
\* of the answer make of the answers alone.
RECURSIVE UnaryOutcome(_, _, _)
UnaryOutcome(log, att, last) ==
  IF ~LoopContinues(att, DefaultMaxRetries)
    THEN Threw(ExhaustedError(DefaultMaxRetries, last))
  ELSE IF log = <<>> THEN Pending
  ELSE IF Head(log).type = "ok" THEN ConvertOutcome(Head(log).payload)
  ELSE LET l == RecordLastError(last, OperationError(Head(log)))
           r == ExecOnFailure(att, l, DefaultMaxRetries, DefaultBackoffMs)
       IN IF r.next = "throw" THEN Threw(r.error)
          ELSE UnaryOutcome(Tail(log), att + 1, l)

\* The lines of a body that generateContentStream translates and yields.
MessageLines(b) ==
  SelectSeq(ParsedLines(b, Len(b.lines)), LAMBDA i : HasMessage(b.lines[i].kind))

AdvisoryDue ==
  /\ checkForToolCalls(request.contents)
  /\ ~Truthy(modelSupportsTools(ModelOf(provider, request)))
\* The code of the call before its try block has run.
PreludeRan == mode \in {"unary", "stream"} /\ pc # "idle" /\ requests >= 1
BackendErrors == {"Error", "Exhausted", "NoReader", "ReadError", "BufferExceeded",
                  "TooManyParseErrors", "SyntaxError"}

\* C14: once generateContent or generateContentStream has run, an advisory
\* has been emitted exactly when the conversation holds a tool-call or
\* tool-result Part and the model resolves to an entry without tool support
\* (none is emitted before); the backend is called all the same, the outcome
\* is the one the backend's answers alone determine, and an error of the call
\* is always an error of the backend or of the translation of its answer.
C14_AdvisoryNonFatal ==
  mode \in {"unary", "stream"} =>
    /\ ~PreludeRan => warnings = <<>>
    /\ PreludeRan =>
         /\ (warnings # <<>>) = AdvisoryDue
         /\ warnings # <<>> => warnings[1] = "advisory"
    /\ (mode = "unary" /\ pc # "idle")
         => /\ requests >= 1
            /\ result = UnaryOutcome(attemptLog, 0, NoError)
    /\ (mode = "stream" /\ result.status \notin {"pending", "cancelled"})
         => /\ requests = 1
            /\ result.status = "threw"
                 => result = Threw(raised) /\ raised.kind \in BackendErrors
            /\ result.status = "ended" => delivered = MessageLines(body)

\* A streamed call for gemma3 with a tool call in the conversation has
\* emitted the advisory and delivered the two responses of the body.
C14_Witness ==
  /\ mode = "stream"
  /\ ModelOf(provider, request) = Key_gemma3
  /\ checkForToolCalls(request.contents)
  /\ warnings = <<"advisory", "note">>
  /\ result.status = "ended"
  /\ delivered = <<1, 2>>

\* The error of a call that failed, as the caller gets it: wrapped, naming
\* the model and the endpoint of the provider.
WrappedFor(kind) ==
  /\ pc = "done"
  /\ result.status = "threw"
  /\ result.error.kind = kind
  /\ result.wrapped
  /\ result.model = ModelOf(provider, request)
  /\ result.endpoint = provider.endpoint

\* The emitted records whose tool call arguments are no JSON.
BadArgsEmitted == {i \in DOMAIN emitted : body.lines[emitted[i]].kind = "badargs"}

\* C18: a unary answer, or a streamed record, with a tool call whose
\* arguments string is no JSON makes the call fail: no Turn comes of it, the
\* error is wrapped with the model and the endpoint, and no request follows
\* (the answer is the last one; a stream has had its only request).
C18_TranslationErrorsHard ==
  /\ (mode = "unary" /\ attemptLog # <<>> /\ LastAnswer.type = "ok"
        /\ ~LastAnswer.payload.argsValid)
       => /\ WrappedFor("SyntaxError")
          /\ requests = Len(attemptLog)
          /\ invocations = Len(attemptLog)
  /\ (mode = "stream" /\ BadArgsEmitted # {})
       => /\ BadArgsEmitted = {Len(emitted)}
          /\ \A j \in DOMAIN delivered : delivered[j] # emitted[Len(emitted)]
          /\ WrappedFor("SyntaxError")
          /\ raised.kind = "SyntaxError"
          /\ requests = 1

\* The second answer of the backend, after a 503, carries a tool call with
\* bad arguments; the call for gemma3 at the remote endpoint has failed.
C18_Witness ==
  /\ mode = "unary"
  /\ Len(attemptLog) = 2
  /\ attemptLog[1].status = 503
  /\ attemptLog[2].payload.id = "badcall"
  /\ result.error.kind = "SyntaxError"
  /\ result.model = Key_gemma3
  /\ result.endpoint = RemoteProvider.endpoint
  /\ requests = 2

IntegrityErrors == {"BufferExceeded", "TooManyParseErrors"}

\* C19: when the decoder has failed with the buffer limit or the parse error
\* limit, the consumer has got an error wrapped with the model and the
\* endpoint, only one request was made, and from then on no response is
\* delivered and no request is issued.
C19_IntegrityErrorsFatal ==
  /\ [](mode = "stream" /\ raised.kind \in IntegrityErrors
          => /\ WrappedFor(raised.kind)
             /\ result.error = raised
             /\ requests = 1)
  /\ [][mode = "stream" /\ raised.kind \in IntegrityErrors
          => /\ delivered' = delivered
             /\ requests' = requests
             /\ result' = result]_vars

\* The stream for gemma3 has delivered a response and then failed with the
\* parse error limit.
C19_Witness ==
  /\ mode = "stream"
  /\ raised.kind = "TooManyParseErrors"
  /\ Len(delivered) >= 1
  /\ result.status = "threw"
  /\ result.model = Key_gemma3
  /\ result.endpoint = DefaultProvider.endpoint

(***************************************************************************)
(* Claims about concurrent calls.                                          *)
(***************************************************************************)
\* C20: with two calls interleaved on one provider, the running call (each
\* of the two in its turn) is where its own backend answers put it: its
\* attempt counter counts its own failed attempts and its result is the one
\* its answers determine; its buffer is the text of its own body after the
\* last terminator read, its error counter the run of malformed lines of its
\* own body, and what it delivers are the records of its own body.
C20_ConcurrentCallsIndependent ==
  /\ (mode = "unary" /\ pc # "idle")
       => /\ result = UnaryOutcome(attemptLog, 0, NoError)
          /\ pc = "fetching" => attempt = Len(attemptLog)
          /\ pc = "sleeping" => attempt = Len(attemptLog) - 1
          /\ requests = Len(attemptLog) + (IF pc = "fetching" THEN 1 ELSE 0)
          /\ (attemptLog # <<>> /\ LastAnswer.type # "ok")
               => lastError = OperationError(LastAnswer)
  /\ mode = "stream"
       => /\ pc = "fetching" => (requests = 1 /\ attemptLog = <<>>)
          /\ pc \in {"reading", "yielded"}
               => buffer = AfterLastNewline(Chunk(body, NoPos, pos))
          /\ pc = "reading" => consecutiveErrors = BadRun(body, pos.line - 1)
          /\ IsPrefix(delivered, MessageLines(body))
          /\ result.status = "ended" => delivered = MessageLines(body)
          /\ result.status = "threw" => result = Threw(raised)

\* A unary call waits for its second backoff while a streamed call, with a
\* response delivered, a malformed line counted and a partial line buffered,
\* waits for its next read.
C20_Witness ==
  /\ mode = "unary"
  /\ pc = "sleeping"
  /\ attempt = 1
  /\ other.mode = "stream"
  /\ other.pc = "reading"
  /\ other.attempt = 0
  /\ other.delivered = <<1>>
  /\ other.consecutiveErrors = 1
  /\ other.buffer # <<>>

(***************************************************************************)
(* Claims about the caller's Conversation.                                 *)
(***************************************************************************)
\* C21: whatever a call of generateContent or generateContentStream has come
\* to (returned, thrown, cancelled, or still under way), every Turn, role and
\* Part of the caller's Conversation is as it was passed in.
C21_ConversationNotMutated == conversation = request.contents

\* A stream cancelled after it delivered a response, the wire role of the
\* user Turn overridden to tool and an identifier generated for the call.
C21_Witness ==
  /\ mode = "stream"
  /\ result.status = "cancelled"
  /\ delivered # <<>>
  /\ conversation[1].parts[2].id = ""
  /\ messages[1].tool_calls.value[1].id \in GeneratedIds
  /\ conversation[2].role = "user"
  /\ messages[2].role = "tool"

(***************************************************************************)
(* Claims about the configuration.                                         *)
(***************************************************************************)
Constructed == mode = "config" /\ pc = "done"
\* The explicit value when one is supplied, else the override when one is
\* set, else the default.
Precedence(explicit, override, default) ==
  IF explicit.present THEN explicit.value
  ELSE IF override.present THEN override.value
  ELSE default
AllDigits(text) == text # <<>> /\ DigitsPrefix(text) = text

\* C22 as it is stated: endpoint, default model and timeout of a constructed
\* provider are the explicit value when one is supplied, else the environment
\* override when one is set, else the hard default; and the timeout is a
\* number: the supplied one, the one in the environment override, or 30000.
C22_Orig_ConfigurationPrecedence ==
  Constructed =>
    /\ provider.endpoint =
         Precedence(options.endpoint,
                    IF env.OLLAMA_ENDPOINT.present THEN env.OLLAMA_ENDPOINT
                    ELSE env.OLLAMA_HOST,
                    "http://localhost:11434")
    /\ provider.defaultModel =
         Precedence(options.model, env.OLLAMA_MODEL, DefaultModel)
    /\ ~provider.timeout.nan
    /\ options.timeout.present => provider.timeout = options.timeout.value
    /\ ~options.timeout.present /\ ~env.OLLAMA_TIMEOUT.present
         => provider.timeout = Number(30000)
    /\ ~options.timeout.present /\ env.OLLAMA_TIMEOUT.present
         /\ AllDigits(env.OLLAMA_TIMEOUT.value)
         => provider.timeout = Number(Decimal(env.OLLAMA_TIMEOUT.value))

(***************************************************************************)
(* Claims about the provider index.                                        *)
(***************************************************************************)
InIndex == mode = "providers"

\* C23: on a provider obtained from the registry, whatever the request and
\* whatever the provider has been through, embedContent throws an error that
\* says embedding is not supported, never returns a value, and issues no
\* HTTP request: neither a probe nor a chat request.
C23_EmbeddingUnsupported ==
  /\ [](InIndex =>
          /\ requests = 0
          /\ result.status \in {"pending", "threw"}
          /\ result.status = "threw" =>
                /\ result.error.kind = "Error"
                /\ Includes(result.error.message,
                            <<"E", "m", "b", "e", "d", "d", "i", "n", "g", " ", "i", "s", " ", "n", "o", "t", " ", "s", "u", "p", "p", "o", "r", "t", "e", "d">>))
  /\ [][InIndex /\ result' # result =>
          /\ created.status = "provider"
          /\ probes' = probes
          /\ requests' = requests]_vars

\* embedContent has thrown on a provider that was probed again after it was
\* obtained.
C23_Witness ==
  /\ InIndex
  /\ created.status = "provider"
  /\ probes = 2
  /\ result.status = "threw"
  /\ result.error.message = EmbeddingMessage

Colons(text) == {i \in 1..Len(text) : text[i] = ":"}
Colon == <<":">>

\* C24: for a string with a colon, extractProvider gives a provider without
\* colon and a modelName such that provider + ':' + modelName is the string;
\* for a string without colon the provider is default and modelName the
\* string; for the empty string, null and undefined the provider is default
\* and modelName the empty string.
C24_ExtractProviderFirstColon ==
  InIndex /\ pc # "idle" =>
    IF modelString.present /\ Colons(modelString.value) # {}
      THEN /\ Colons(extracted.provider) = {}
           /\ extracted.provider \o Colon \o extracted.modelName = modelString.value
      ELSE /\ extracted.provider = DefaultName
           /\ extracted.modelName =
                IF modelString.present THEN modelString.value ELSE <<>>

\* extractProvider has split a string with three colons at the first.
C24_Witness ==
  /\ InIndex
  /\ pc = "extracted"
  /\ modelString = Some(<<"o", "l", "l", "a", "m", "a", ":", "m", "o", "d", "e", "l", ":", "w", "i", "t", "h", ":", "c", "o", "l", "o", "n", "s">>)
  /\ extracted.provider = <<"o", "l", "l", "a", "m", "a">>
  /\ extracted.modelName = <<"m", "o", "d", "e", "l", ":", "w", "i", "t", "h", ":", "c", "o", "l", "o", "n", "s">>

\* The text of a model string before its first colon and after it.
Prefixed(model) == model.present /\ Colons(model.value) # {}
FirstColon(model) == CHOOSE i \in Colons(model.value) : \A j \in Colons(model.value) : i <= j
PrefixOf(model) == SubSeq(model.value, 1, FirstColon(model) - 1)
AfterPrefix(model) == SubSeq(model.value, FirstColon(model) + 1, Len(model.value))

\* C25: createProviderFromModel never throws; it returns null for a model
\* string without prefix, for a prefix that is not registered, and when the
\* factory fails (the probe answering false or raising); it returns a
\* provider only for a registered prefix whose probe answered true, and the
\* provider was constructed with the model name after the prefix.
C25_CreateProviderFromModelNeverThrows ==
  InIndex =>
    /\ created.status \in {"none", "probing", "null", "provider"}
    /\ pc = "created" =>
         /\ created.status \in {"null", "provider"}
         /\ ~Prefixed(modelString) => created.status = "null"
         /\ Prefixed(modelString) /\ PrefixOf(modelString) \notin providerRegistry
              => created.status = "null"
         /\ created.probe \in {"notOk", "rejected", "raised"}
              => created.status = "null"
         /\ created.status = "provider" =>
              /\ Prefixed(modelString)
              /\ PrefixOf(modelString) \in providerRegistry
              /\ created.probe = "ok"
              /\ provider =
                   OllamaProvider(
                     [options EXCEPT !.model = Some(AfterPrefix(modelString))], env)
              /\ AfterPrefix(modelString) # <<>>
                   => provider.defaultModel = AfterPrefix(modelString)

\* A provider for ollama:qwen2.5:1.5b was returned although the configuration
\* names another model.
C25_Witness ==
  /\ InIndex
  /\ pc = "created"
  /\ created.status = "provider"
  /\ created.probe = "ok"
  /\ modelString = Some(<<"o", "l", "l", "a", "m", "a", ":", "q", "w", "e", "n", "2", ".", "5", ":", "1", ".", "5", "b">>)
  /\ options.model = Some(Key_gemma2)
  /\ provider.defaultModel = <<"q", "w", "e", "n", "2", ".", "5", ":", "1", ".", "5", "b">>
  /\ provider.endpoint = "http://explicit-host:11434"

(***************************************************************************)
(* Claims about the wire messages and the Turn of a response.              *)
(***************************************************************************)
OnWire == mode = "translate" /\ pc \in {"wire", "done"}
HasResult(turn) == FunctionResponsesOf(turn) # <<>>

\* C26: the wire role of a Turn without tool-result Part is assistant for
\* the role model, system for system, tool for the tool-result role
\* (function), and user for every other role, a missing one included; a Turn
\* with a tool-result Part has the wire role tool.
C26_RoleMappingTotal ==
  OnWire =>
    /\ Len(messages) = Len(request.contents)
    /\ \A i \in 1..Len(request.contents) :
         LET turn == request.contents[i] IN
         IF HasResult(turn) THEN messages[i].role = "tool"
         ELSE /\ turn.role = "model" => messages[i].role = "assistant"
              /\ turn.role = "system" => messages[i].role = "system"
              /\ turn.role = "function" => messages[i].role = "tool"
              /\ turn.role \notin {"model", "system", "function"}
                   => messages[i].role = "user"

\* A Turn without role, of a text and a tool call, was sent as user.
C26_Witness ==
  /\ OnWire
  /\ Len(request.contents) = 1
  /\ request.contents[1].role = NoRole
  /\ request.contents[1].parts = <<TextPart(<<"h", "i">>),
                                   FunctionCallPart("get_weather", None(EmptyObject), "")>>
  /\ messages[1].role = "user"

TextPartsOf(turn) == SelectSeq(turn.parts, LAMBDA p : p.type = "text")

\* C27 as it is stated: there is one wire message per Turn, in order, and the
\* content of a Turn without tool-result Part is the texts of all its text
\* Parts, in order, with a newline between each two; tool-call Parts add
\* nothing.
C27_Orig_ContentJoinsAllTextParts ==
  OnWire =>
    /\ Len(messages) = Len(request.contents)
    /\ \A i \in 1..Len(request.contents) :
         ~HasResult(request.contents[i]) =>
           messages[i].content = JoinLines(TextsOf(TextPartsOf(request.contents[i])))

\* The generated identifiers of the wire messages, in order.
RECURSIVE GeneratedOf(_, _)
GeneratedOf(contents, msgs) ==
  IF contents = <<>> THEN <<>>
  ELSE LET calls == FunctionCallsOf(Head(contents))
           entries == IF Head(msgs).tool_calls.present
                        THEN Head(msgs).tool_calls.value ELSE <<>>
           fresh == SelectSeq([k \in 1..Len(entries) |->
                                 [id |-> entries[k].id,
                                  fresh |-> k <= Len(calls) /\ calls[k].id = ""]],
                              LAMBDA x : x.fresh)
       IN [k \in 1..Len(fresh) |-> fresh[k].id]
          \o GeneratedOf(Tail(contents), Tail(msgs))

\* C28 as it is stated: a wire message has tool_calls exactly when its Turn
\* has a tool-call Part; the entries are the tool-call Parts in order, of
\* type function, with the identifier the caller supplied, or a generated
\* one when none was supplied; and no two generated identifiers of a request
\* are equal.
C28_Orig_ToolCallIdentifiers ==
  OnWire =>
    /\ \A i \in 1..Len(request.contents) :
         LET calls == FunctionCallsOf(request.contents[i]) IN
         /\ messages[i].tool_calls.present <=> calls # <<>>
         /\ calls # <<>> =>
              /\ Len(messages[i].tool_calls.value) = Len(calls)
              /\ \A k \in 1..Len(calls) :
                   LET entry == messages[i].tool_calls.value[k] IN
                   /\ entry.type = "function"
                   /\ entry.function.name = calls[k].name
                   /\ calls[k].id # "" => entry.id = calls[k].id
                   /\ calls[k].id = "" => entry.id \in GeneratedIds
    /\ NoDuplicates(GeneratedOf(request.contents, messages))

\* C29: a wire message with a tool_call_id has the role tool.
C29_ToolCallIdOnlyOnTool ==
  OnWire =>
    \A i \in 1..Len(messages) :
      messages[i].tool_call_id.present => messages[i].role = "tool"

\* A model Turn of a tool call and a tool result was sent with a
\* tool_call_id, its role overridden.
C29_Witness ==
  /\ OnWire
  /\ Len(messages) = 1
  /\ request.contents[1].role = "model"
  /\ Len(request.contents[1].parts) = 2
  /\ request.contents[1].parts[1].type = "functionCall"
  /\ request.contents[1].parts[2].type = "functionResponse"
  /\ messages[1].tool_calls.present
  /\ messages[1].tool_call_id = Some("get_weather")
  /\ messages[1].role = "tool"

\* The shape of the Turn of a response for a wire message and a done flag.
Shaped(message, response, done) ==
  LET n == IF message.content # <<>> THEN 1 ELSE 0
      entries == IF message.tool_calls.present THEN message.tool_calls.value ELSE <<>>
  IN /\ response.ok
     /\ response.role = "model"
     /\ Len(response.parts) = n + Len(entries)
     /\ n = 1 => /\ response.parts[1].type = "text"
                 /\ response.parts[1].text = message.content
     /\ \A k \in 1..Len(entries) :
          /\ response.parts[n + k].type = "functionCall"
          /\ response.parts[n + k].name = entries[k].function.name
     /\ response.finishReason = IF done THEN "STOP" ELSE "OTHER"

\* C30: the Turn convertToGeminiResponse makes of a response has the role
\* model, one text Part when the content is non-empty and none when it is
\* empty, then one tool-call Part per tool_calls entry in order, and the
\* finish reason STOP when done is true, OTHER when it is false.
C30_FromWireShape ==
  [][\A done \in BOOLEAN :
       FromWire(done) =>
         \A i \in 1..Len(messages) : Shaped(messages[i], responses'[i], done)]_vars

\* A response with a content and a tool call was translated with done true.
C30_Witness ==
  /\ Translated
  /\ Len(responses) = 1
  /\ messages[1].content = <<"h", "i">>
  /\ messages[1].tool_calls.present
  /\ responses[1].parts =
       <<TextPart(<<"h", "i">>),
         FunctionCallPart("get_weather", Some(LocationParis), "")>>
  /\ responses[1].finishReason = "STOP"

(***************************************************************************)
(* Claims about the decoder as a state machine and about what the consumer *)
(* of generateContentStream is handed.                                     *)
(***************************************************************************)
\* The records of em, lines of the body by number, that carry a message.
Carrying(em) == SelectSeq(em, LAMBDA i : body.lines[i].kind # "nomsg")
\* Whether a text holds a line terminator.
HasNewline(t) == \E k \in DOMAIN t : t[k].nl

\* C31: generateContentStream yields exactly one response for each record the
\* decoder emits that carries a message, in decoding order, and nothing for a
\* record without one (the record whose translation throws ends the sequence
\* instead of being yielded); and while a read of the body is pending every
\* complete line of the chunks received so far has gone through the loop: no
\* line is left over and the buffer holds no terminated line.
C31_OneResponsePerMessageRecord ==
  mode = "stream" =>
    /\ raised.kind # "SyntaxError" => delivered = Carrying(emitted)
    /\ raised.kind = "SyntaxError"
         => /\ emitted # <<>>
            /\ body.lines[emitted[Len(emitted)]].kind = "badargs"
            /\ Carrying(emitted) = Append(delivered, emitted[Len(emitted)])
    /\ NoDuplicates(delivered)
    /\ \A j, k \in DOMAIN delivered : j < k => delivered[j] < delivered[k]
    /\ pc = "reading"
         => /\ lines = <<>>
            /\ ~HasNewline(buffer)
            /\ Handled = pos.line - 1

C31_Witness ==
  /\ mode = "stream"
  /\ pc = "reading"
  /\ reads = 2
  /\ Len(body.lines) = 2
  /\ body.lines[1].kind = "nomsg"
  /\ body.lines[2].kind = "msg"
  /\ emitted = <<1, 2>>
  /\ delivered = <<2>>
  /\ pos = EndPos(body)

\* The response yielded for line i of the body.
ResponseOf(i) == convertToGeminiResponse(RecordOf(body.lines[i].kind))
\* A response marked terminal has been yielded.
TerminalYielded ==
  \E k \in DOMAIN delivered : ResponseOf(delivered[k]).finishReason = "STOP"

\* C32 (as claimed): once a response marked terminal (finish reason STOP, from
\* a record with done = true) has been yielded, no further response is
\* yielded, whatever the backend sends afterwards.
C32_Orig_NothingAfterTerminal ==
  [][(mode = "stream" /\ TerminalYielded) => delivered' = delivered]_vars

\* The terminal states of the decoder: Terminated, Failed(BufferExceeded) and
\* Failed(TooManyParseErrors).
DecoderStopped ==
  \/ result.status = "ended"
  \/ raised.kind \in {"BufferExceeded", "TooManyParseErrors"}
IsSuffix(t, u) == Len(t) <= Len(u) /\ SubSeq(u, Len(u) - Len(t) + 1, Len(u)) = t

\* C33: the terminal states of the decoder are absorbing: once it has ended
\* cleanly or failed with the buffer-exceeded or the parse-error-limit error
\* it emits no further record, hands over no further response and performs
\* no further read.  Emitting is no rest state: the decoder does not end
\* while suspended at a yield unless the consumer abandons it, and when the
\* consumer pulls again it goes on with the remaining lines of the chunk,
\* which brings it to the next yield, to the parse error limit, or, all
\* lines gone through, back to a read.
C33_TerminalStatesAbsorbing ==
  [][ mode = "stream" =>
        /\ DecoderStopped
             => /\ emitted' = emitted
                /\ delivered' = delivered
                /\ reads' = reads
                /\ pc' = "done"
                /\ raised' = raised
                /\ result' = result
        /\ (pc = "yielded" /\ pc' # pc)
             => \/ /\ result'.status = "cancelled"
                   /\ emitted' = emitted
                   /\ reads' = reads
                \/ /\ IsSuffix(lines', lines)
                   /\ \/ pc' = "reading" /\ lines' = <<>> /\ reads' = reads + 1
                      \/ /\ pc' = "done"
                         /\ raised'.kind \in {"TooManyParseErrors", "SyntaxError"}
                         /\ reads' = reads
        /\ (pc = "yielded" /\ pc' = pc)
             => /\ IsSuffix(lines', lines) /\ Len(lines') < Len(lines)
                /\ Len(delivered') = Len(delivered) + 1
                /\ reads' = reads
        /\ result'.status = "ended" => pc = "reading" ]_vars

\* The decoder has failed at the parse error limit on its resumption from a
\* yield, within the lines of the one chunk it has read.
C33_Witness ==
  /\ mode = "stream"
  /\ pc = "done"
  /\ raised.kind = "TooManyParseErrors"
  /\ delivered = <<1>>
  /\ reads = 1
  /\ Handled = MaxConsecutiveErrors + 2

\* C34 (as claimed): throughout a stream the consecutive-error counter equals
\* the number of malformed lines gone through since the most recent line
\* that parsed (or since the start), every successful parse resetting it to
\* zero, blank lines and chunk boundaries leaving it alone; whenever the
\* decoder waits for a read or for the consumer it is between 0 and 5.
C34_Orig_CounterIsMalformedRun ==
  (mode = "stream" /\ pc \in {"reading", "yielded"})
    => /\ consecutiveErrors = BadRun(body, Handled)
       /\ consecutiveErrors \in 0..MaxConsecutiveErrors

\* C34 (amended): while the decoder waits for a read the counter equals the
\* number of malformed lines gone through since the most recent line that
\* parsed (or since the start); while it is suspended at the yield of a
\* parsed line it still holds the number of malformed lines that preceded
\* that line, the reset being made when the consumer pulls again; blank lines
\* and chunk boundaries leave it alone, and at either wait it is between 0
\* and 5.
C34_CounterIsMalformedRun ==
  mode = "stream" =>
    /\ pc = "reading" => consecutiveErrors = BadRun(body, Handled)
    /\ pc = "yielded"
         => /\ Handled >= 1
            /\ BadRun(body, Handled) = 0
            /\ consecutiveErrors = BadRun(body, Handled - 1)
    /\ pc \in {"reading", "yielded"}
         => consecutiveErrors \in 0..MaxConsecutiveErrors

\* The decoder is suspended at the yield of a line that three malformed
\* lines precede.
C34_Witness ==
  /\ mode = "stream"
  /\ pc = "yielded"
  /\ Handled = 4
  /\ consecutiveErrors = 3
  /\ reads >= 2

\* Every line of the body, its terminator included, and the unterminated
\* tail are shorter than the maximum buffer size.
AllLinesShort(b) ==
  /\ \A i \in DOMAIN b.lines : b.lines[i].len + 1 < MAX_BUFFER_SIZE
  /\ b.tail.len < MAX_BUFFER_SIZE

\* C35 (as claimed): the decoder fails with the buffer-exceeded error only if
\* the text received since the last line terminator is longer than the
\* maximum buffer size; a body in which every line, terminator included, is
\* shorter than the maximum never fails so, however it is cut into chunks.
C35_Orig_BufferExceededOnlyUnterminated ==
  (mode = "stream" /\ raised.kind = "BufferExceeded")
    => /\ TextLen(AfterLastNewline(buffer)) > MAX_BUFFER_SIZE
       /\ ~AllLinesShort(body)

(***************************************************************************)
(* Claims about the backoff schedule of the retry executor.                *)
(***************************************************************************)
\* waits[k] is the wait that precedes attempt k (0-indexed): the k-th wait
\* is made after attempt k - 1 has failed, and attempt k follows it.
WaitBefore(k) == waits[k]

\* C36 (as claimed): with a base delay of 1000 ms the delay waited before
\* attempt k (0-indexed) is baseDelay * 2^k.
C36_Orig_DelayBeforeAttempt ==
  mode = "unary" =>
    \A k \in 1..Len(waits) : WaitBefore(k) = DefaultBackoffMs * Pow2(k)

\* C36 (amended): with a base delay of 1000 ms the delay waited after the
\* failure of attempt k (0-indexed), that is before attempt k + 1, is
\* baseDelay * 2^k; nothing is waited before attempt 0; successive waits
\* double, and the wait depends on the attempt index alone, whatever the
\* retryable failures were.
C36_BackoffSchedule ==
  mode = "unary" =>
    /\ \A k \in 0..(Len(waits) - 1) : WaitBefore(k + 1) = DefaultBackoffMs * Pow2(k)
    /\ \A k \in 1..(Len(waits) - 1) : WaitBefore(k + 1) = 2 * WaitBefore(k)
    /\ pc = "sleeping" => Len(waits) = attempt + 1
    /\ pc = "fetching" => (Len(waits) = attempt /\ attempt = invocations - 1)
    /\ Len(waits) <= DefaultMaxRetries - 1

\* Two waits have been made, after a rejected fetch and after a 503.
C36_Witness ==
  /\ mode = "unary"
  /\ pc = "fetching"
  /\ invocations = 3
  /\ waits = <<1000, 2000>>
  /\ attemptLog[1].type = "reject"
  /\ attemptLog[2].status = 503

(***************************************************************************)
(* Claims about the buffer, the reader and the request of a stream.        *)
(***************************************************************************)
\* C37: whenever the decoder is suspended waiting for the next read of the
\* body, its buffer holds no line terminator and is at most the maximum
\* buffer size (1 MiB) long.
C37_BufferBoundedWhileReading ==
  (mode = "stream" /\ pc = "reading")
    => /\ ~HasNewline(buffer)
       /\ TextLen(buffer) <= MAX_BUFFER_SIZE

\* The decoder waits for a read with a full buffer: an unterminated fragment
\* of exactly the maximum size, kept after a line was split off.
C37_Witness ==
  /\ mode = "stream"
  /\ pc = "reading"
  /\ reads >= 2
  /\ emitted = <<1>>
  /\ TextLen(buffer) = MAX_BUFFER_SIZE

\* C38: once the reader of the body has been acquired, every way the decoder
\* stops (clean end, buffer exceeded, parse error limit, a read that fails,
\* a record that does not translate, the consumer abandoning the sequence at
\* a yield) releases the reader's lock exactly once: it is held and not yet
\* released while the decoder waits for a read or at a yield, released once
\* when the stream is over, never released twice, and no read is attempted
\* after the release.
C38_ReaderReleasedExactlyOnce ==
  /\ [](mode = "stream" =>
          /\ releases <= 1
          /\ reader = "released" <=> releases = 1
          /\ pc \in {"reading", "yielded"} => reader = "locked"
          /\ (pc = "done" /\ reader # "none") => reader = "released"
          /\ reads >= 1 => reader # "none")
  /\ [][(mode = "stream" /\ reader = "released")
          => (reads' = reads /\ reader' = reader /\ releases' = releases)]_vars

\* The consumer has abandoned the sequence at a yield with text of the body
\* still to come, and the reader is released.
C38_Witness ==
  /\ mode = "stream"
  /\ result.status = "cancelled"
  /\ delivered = <<1>>
  /\ pos # EndPos(body)
  /\ reader = "released"
  /\ releases = 1

====
